---- MODULE Spec2Model ----
(***************************************************************************)
(* Model of the per-cell colocalisation pipeline of DCTracker / CoPixie:   *)
(* frame counting, footprint tables (disk and mask strategies), the outer  *)
(* merge of the channel tables, the partial-match filter and the run       *)
(* detection of Colocalize.  The model follows src/dctracker/dctracker.py, *)
(* src/dctracker/colocalize.py and src/dctracker/pipeline.py; the copies   *)
(* under src/copixie/ hold the same statements.                            *)
(*                                                                         *)
(* A pandas DataFrame whose row order the code does not read is a set of   *)
(* rows; a DataFrame whose row order is read (the track file, the sorted   *)
(* correspondence table, the interval list) is a sequence.  Positions are  *)
(* stored as the quotient position/pixel_size counted in quarter pixels.   *)
(***************************************************************************)
EXTENDS Integers, Sequences, FiniteSets

VARIABLES
    particles,      \* the cell: one record per channel (params[1:])
    pc,             \* position of the cell's pipeline
    frame_count,    \* DCTracker.main: frame_count
    tables,         \* DCTracker.main: tables built so far, in channel order
    merged,         \* DCTracker.main: df after merge, drop, drop_duplicates, sort
    df,             \* DCTracker.main: df after the partial-match filter (DCTracker.csv)
    interactions,   \* Colocalize.main: the interval list (Colocalize.csv)
    error,          \* the exception that ended the pipeline, "" when none
    written         \* the files written to the output directory, in order

(* The run of Pipeline over the cells of an experiment.                    *)
VARIABLES
    params,         \* Pipeline.__init__: what DCTracker raises for each cell ("" when nothing)
    processes,      \* multiprocessing.cpu_count()
    taskqueue,      \* pool.map: the chunks of cells no worker has taken yet
    job,            \* per worker, the cells left of the chunk it runs
    outcome,        \* per cell, how run_dctracker ended
    pool_pc         \* position of Pipeline.__init__

(* The validation of a configuration file.                                 *)
VARIABLES
    config,         \* parse_config: the sections of the file, as ConfigObj holds them
    config_pc,      \* "Read", "Accepted", "Selected", or the exception parse_config raised
    strategy        \* DCTracker.main: per channel, the footprint strategy taken

(* The parsing of a metadata file.                                         *)
VARIABLES
    meta_file,      \* the metadata file: whether it exists, and its lines
    parser,         \* "Experiment" (data.py) or "Metadata" (metadata.py)
    line_no,        \* _parse_metadata: lines read so far
    header,         \* _parse_metadata: the header, <<>> for None
    assays,         \* Experiment._parse_metadata: the [path, qualifiers] pairs
    experiment,     \* the Assay objects of the Experiment or of the Metadata
    meta_pc         \* "Closed", "Reading", "Returned", or the exception raised

(* The discovery of the cells of an assay.                                 *)
VARIABLES
    assay_path,     \* Assay.path, as the sequence of its parts
    files,          \* the files under the assay path, relative to it
    channels,       \* config.channels: track_file and mask_file of each
    cell_dirs,      \* _process_file_structure: the sorted folders still to parse
    cells,          \* Assay._cells
    log,            \* the warnings logged
    assay_pc        \* "New", "Cells" (the loop over cell_dirs)

(* The flood fill of one track point of a mask channel.                    *)
VARIABLES
    fill_frame,     \* mask[track_time], or mask when static: the rows of the frame
    fill_seed,      \* (track_x, track_y)
    visited,        \* mask_to_table: visited
    completed,      \* mask_to_table: completed
    popped,         \* per pixel handed out by visited.pop(), how many times
    fill_pc         \* "Centroid", "Fill", "Done" or "InvalidCentroidError"

(* The preparation of a run and the writes of its cells.                   *)
VARIABLES
    run_file,       \* the lines of the metadata file of the run
    metadata,       \* parse_metadata: per condition, its [replicate, path] pairs
    replicate_no,   \* prepare_run: replicates of the metadata done so far
    no_analysis_directory,  \* prepare_run: no replicate path was a directory
    dctracker_args, \* prepare_run: the cells, each with its Output path
    cell_pc,        \* per cell, the position of run_dctracker
    disk,           \* the writes done: [path, cell]
    run_pc          \* "Metadata", "Prepare", "Pipeline", or the exception raised

(* The iterations over one Assay of an Experiment.                         *)
VARIABLES
    it_cells,       \* per assay of the experiment, Assay._cells
    it_index,       \* per assay of the experiment, Assay._index
    it_pc,          \* per loop over the first assay: "Idle", "Iterating", "Stopped"
    yielded,        \* per loop, what next() returned since its iter()
    iter_calls,     \* per loop, the iter() calls made
    got             \* what the last get_cells returned

cellVars == <<particles, pc, frame_count, tables, merged, df, interactions, error,
              written>>

poolVars == <<params, processes, taskqueue, job, outcome, pool_pc>>

(* The variables a step of the pipeline of one cell leaves alone.          *)
configVars == <<config, config_pc, strategy>>

metaVars == <<meta_file, parser, line_no, header, assays, experiment, meta_pc>>

fillVars == <<fill_frame, fill_seed, visited, completed, popped, fill_pc>>

assayVars == <<assay_path, files, channels, cell_dirs, cells, log, assay_pc>>

runVars == <<run_file, metadata, replicate_no, no_analysis_directory,
             dctracker_args, cell_pc, disk, run_pc>>

iterVars == <<it_cells, it_index, it_pc, yielded, iter_calls, got>>

outerVars == <<poolVars, configVars, metaVars, assayVars, fillVars, runVars, iterVars>>

vars == <<cellVars, outerVars>>

----------------------------------------------------------------------------
(* Bounds of the checked inputs.                                           *)
MaxFrame == 2       \* frames of the track points are 0..MaxFrame
Width == 3          \* columns of a mask frame
Height == 2         \* rows of a mask frame
MaxQuarter == 10    \* positions off the pixel grid are -MaxQuarter..MaxQuarter quarter pixels
MaxCells == 5       \* cells handed to one Pipeline
MaxProcesses == 2   \* worker processes of the pool
MaxInputs == 2      \* sections of [Input] in a configuration file
MaxLines == 3       \* lines of a metadata file
FillWidth == 2      \* columns of the frame of a flood fill followed pop by pop
FillHeight == 2     \* rows of that frame
MaxItems == 3       \* cells of an iterated assay
MaxIter == 2        \* iter() calls of one loop

Frames == 0..MaxFrame

(* pandas' NaN in an id column.  parse_trackmate keeps only the rows whose *)
(* TRACK_ID is made of digits, so every particle id is >= 0 and -1 is free.*)
NaN == -1

----------------------------------------------------------------------------
(* Helpers.                                                                *)

Max(S) == CHOOSE m \in S : \A n \in S : n <= m

Min(S) == CHOOSE m \in S : \A n \in S : m <= n

Range(s) == {s[i] : i \in 1..Len(s)}

(* Variant of PyRound: floor(q + 0.5), a half goes up.                     *)
RoundHalfUp(q4) == (q4 + 2) \div 4

(* int(round(q)) of Python 3 for q = q4/4: round half to even.             *)
PyRound(q4) ==
    LET n == q4 \div 4
        r == q4 % 4
    IN IF r < 2 THEN n
       ELSE IF r > 2 THEN n + 1
       ELSE IF n % 2 = 0 THEN n ELSE n + 1

(* numpy / list indexing a[i] on a sequence of length n: an index in       *)
(* -n..n-1 is valid and a negative one counts from the end; any other      *)
(* index raises IndexError.                                                *)
IndexOK(a, i) == -Len(a) <= i /\ i < Len(a)

At(a, i) == IF i < 0 THEN a[Len(a) + i + 1] ELSE a[i + 1]

(* mask[y][x] on one 2-D frame: TRUE when the lookup raises IndexError.    *)
LookupFails(frame, x, y) ==
    \/ ~IndexOK(frame, y)
    \/ ~IndexOK(At(frame, y), x)

MaskValue(frame, x, y) == At(At(frame, y), x)

(* The 2-D frame a lookup at track_time reads: the mask itself when static,*)
(* mask[track_time] otherwise (<<>> when that index raises IndexError).    *)
FrameFails(mask, static, t) == ~static /\ ~IndexOK(mask, t)

FrameOf(mask, static, t) == IF static THEN mask ELSE At(mask, t)

----------------------------------------------------------------------------
(* Footprint tables.  A footprint row is [X, Y, TRACK_ID, FRAME].          *)

track_x(p) == PyRound(p.POSITION_X)

track_y(p) == PyRound(p.POSITION_Y)

Row(x, y, id, t) == [X |-> x, Y |-> y, TRACK_ID |-> id, FRAME |-> t]

(* neighbour_dist: +/- 1 without the diagonals (and the pixel itself).     *)
neighbour_dist == {<<-1, 0>>, <<0, -1>>, <<0, 0>>, <<0, 1>>, <<1, 0>>}

Neighbours(v) == {<<v[1] + d[1], v[2] + d[2]>> : d \in neighbour_dist}

(* The test of the flood fill's inner loop: the lookup of n raises no      *)
(* IndexError and reads a nonzero value.                                   *)
Foreground(frame, n) ==
    /\ ~LookupFails(frame, n[1], n[2])
    /\ MaskValue(frame, n[1], n[2]) # 0

(* The while loop of mask_to_table: pop a pixel of visited, add it to      *)
(* completed, add its foreground neighbours that are not completed.        *)
RECURSIVE FloodFill(_, _, _)
FloodFill(frame, frontier, filled) ==
    IF frontier = {} THEN filled
    ELSE LET v == CHOOSE w \in frontier : TRUE
             done == filled \cup {v}
             new == {n \in Neighbours(v) : n \notin done /\ Foreground(frame, n)}
         IN FloodFill(frame, (frontier \ {v}) \cup new, done)

(* TRUE when the centroid lookup of track point p raises IndexError.       *)
CentroidFails(p, mask, static) ==
    \/ FrameFails(mask, static, p.FRAME)
    \/ LookupFails(FrameOf(mask, static, p.FRAME), track_x(p), track_y(p))

(* completed for one track point: empty when the centroid is on a zero     *)
(* pixel (visited stays empty), the filled region otherwise.               *)
Completed(p, mask, static) ==
    LET frame == FrameOf(mask, static, p.FRAME)
        seed == <<track_x(p), track_y(p)>>
    IN IF MaskValue(frame, seed[1], seed[2]) # 0
       THEN FloodFill(frame, {seed}, {})
       ELSE {}

(* df of mask_to_table before the overlap filter.                          *)
MaskRows(tracks, mask, static) ==
    UNION {{Row(c[1], c[2], tracks[i].TRACK_ID, tracks[i].FRAME) :
                c \in Completed(tracks[i], mask, static)} : i \in 1..Len(tracks)}

(* centroids[frame][id]: the last track point of the file with that frame  *)
(* and id.                                                                 *)
Centroid(tracks, t, id) ==
    LET i == Max({j \in 1..Len(tracks) :
                    tracks[j].FRAME = t /\ tracks[j].TRACK_ID = id})
    IN <<track_x(tracks[i]), track_y(tracks[i])>>

(* DISTANCE squared (math.sqrt is monotone).                               *)
Distance2(tracks, r) ==
    LET c == Centroid(tracks, r.FRAME, r.TRACK_ID)
    IN (r.X - c[1]) * (r.X - c[1]) + (r.Y - c[2]) * (r.Y - c[2])

SameKey(r, s) == r.X = s.X /\ r.Y = s.Y /\ r.FRAME = s.FRAME

(* The position in the track file of the track point a row comes from: the *)
(* order of the rows of df.                                                *)
TrackIndex(tracks, r) ==
    Min({j \in 1..Len(tracks) :
            tracks[j].FRAME = r.FRAME /\ tracks[j].TRACK_ID = r.TRACK_ID})

(* g.sort_values(by=['DISTANCE']).iloc[0] for the group of r: the row of   *)
(* least distance.  The sort is pandas' default quicksort, which is not    *)
(* stable: which of the rows of equal distance comes first is not fixed by *)
(* the code.  An insertion sort (numpy on a short array) keeps the order   *)
(* of df, the order of the track file (stable = TRUE); the other outcome   *)
(* modelled is the reverse order (stable = FALSE), the same for every      *)
(* pixel of the table.                                                     *)
Before(tracks, s, u, stable) ==
    \/ Distance2(tracks, s) < Distance2(tracks, u)
    \/ /\ Distance2(tracks, s) = Distance2(tracks, u)
       /\ IF stable THEN TrackIndex(tracks, s) <= TrackIndex(tracks, u)
                    ELSE TrackIndex(tracks, s) >= TrackIndex(tracks, u)

Closest(tracks, rows, r, stable) ==
    CHOOSE s \in rows :
        /\ SameKey(r, s)
        /\ \A u \in rows : SameKey(r, u) => Before(tracks, s, u, stable)

(* Variant of FilterOverlap: the contested pixels are dropped.             *)
FilterOverlapUnique(tracks, rows, stable) ==
    {r \in rows : \A s \in rows : SameKey(r, s) => s = r}

(* The overlap filter of mask_to_table: unique and selected_df.            *)
FilterOverlap(tracks, rows, stable) ==
    LET unique == {r \in rows : \A s \in rows : SameKey(r, s) => s = r}
        duplicated == rows \ unique
    IN unique \cup {Closest(tracks, rows, r, stable) : r \in duplicated}

(* Variant of make_static: the rows of the later frames are kept.          *)
keep_all_frames(table) == table

make_static(table) == {r \in table : r.FRAME = 0}

expand_static_table(table, fc) ==
    {Row(r.X, r.Y, r.TRACK_ID, i) : r \in table, i \in 0..(fc - 1)}

(* Variant of centroid_to_table: the rows left of or above the origin are  *)
(* removed.                                                                *)
centroid_to_table_clipped(tracks, radius) ==
    LET radius_px == PyRound(radius)
        particle_sphere == (-radius_px..radius_px) \X (-radius_px..radius_px)
    IN UNION {{r \in {Row(track_x(tracks[i]) + d[1], track_y(tracks[i]) + d[2],
                          tracks[i].TRACK_ID, tracks[i].FRAME) : d \in particle_sphere} :
                   r.X >= 0 /\ r.Y >= 0} :
              i \in 1..Len(tracks)}

(* centroid_to_table: the square of side 2*radius_px+1 around each point.  *)
centroid_to_table(tracks, radius) ==
    LET radius_px == PyRound(radius)
        particle_sphere == (-radius_px..radius_px) \X (-radius_px..radius_px)
    IN UNION {{Row(track_x(tracks[i]) + d[1], track_y(tracks[i]) + d[2],
                   tracks[i].TRACK_ID, tracks[i].FRAME) : d \in particle_sphere} :
              i \in 1..Len(tracks)}

----------------------------------------------------------------------------
(* DCTracker.main.                                                         *)

(* The frame_count loop: tracks is assigned only for a non-static channel, *)
(* and the append after the if reads tracks for every channel.  While      *)
(* tracks is not bound, reading it raises UnboundLocalError.               *)
RECURSIVE FrameCountList(_, _, _, _, _)
FrameCountList(ps, i, bound, tracks, acc) ==
    IF i > Len(ps) THEN [error |-> "", list |-> acc]
    ELSE LET isBound == bound \/ ~ps[i].Static
             cur == IF ~ps[i].Static THEN ps[i].TrackFile ELSE tracks
         IN IF ~isBound THEN [error |-> "UnboundLocalError", list |-> acc]
            ELSE FrameCountList(ps, i + 1, TRUE, cur,
                     Append(acc, Max({cur[j].FRAME : j \in 1..Len(cur)}) + 1))

(* [error, value]: the exception of the loop, or frame_count.              *)
FrameCount(ps) ==
    LET l == FrameCountList(ps, 1, FALSE, <<>>, <<>>)
    IN [error |-> l.error,
        value |-> IF l.error # "" THEN 0
                  ELSE IF l.list # <<>> THEN Max(Range(l.list)) ELSE 1]

(* Variant of mask_to_table: a centroid on a zero pixel raises too.        *)
mask_to_table_strict(tracks, mask, static, stable) ==
    IF \E i \in 1..Len(tracks) :
          \/ CentroidFails(tracks[i], mask, static)
          \/ Completed(tracks[i], mask, static) = {}
    THEN [error |-> "InvalidCentroidError", table |-> {}]
    ELSE [error |-> "",
          table |-> FilterOverlap(tracks, MaskRows(tracks, mask, static), stable)]

(* [error, table]: InvalidCentroidError when a centroid lookup raises      *)
(* IndexError, otherwise the table mask_to_table returns.                  *)
mask_to_table(tracks, mask, static, stable) ==
    IF \E i \in 1..Len(tracks) : CentroidFails(tracks[i], mask, static)
    THEN [error |-> "InvalidCentroidError", table |-> {}]
    ELSE [error |-> "",
          table |-> FilterOverlap(tracks, MaskRows(tracks, mask, static), stable)]

(* The table of one channel in the loop over the particles: [error, table].*)
ChannelTable(p, fc, stable) ==
    IF p.MaskFile
    THEN LET t == mask_to_table(p.TrackFile, p.Mask, p.Static, stable)
         IN IF p.Static
            THEN [error |-> t.error,
                  table |-> expand_static_table(make_static(t.table), fc)]
            ELSE t
    ELSE [error |-> "", table |-> centroid_to_table(p.TrackFile, p.Radius)]

(* A row of the merged table is [X, Y, FRAME, ids], ids holding one id or  *)
(* NaN per channel merged so far.                                          *)
Nulls(k) == [i \in 1..k |-> NaN]

(* Variant of OuterMerge: on=["FRAME"], the pixel of the left row kept.    *)
MergeOnFrame(left, right, k) ==
    {[X |-> a.X, Y |-> a.Y, FRAME |-> a.FRAME, ids |-> Append(a.ids, b.TRACK_ID)] :
        <<a, b>> \in {<<a, b>> \in left \X right : a.FRAME = b.FRAME}}
    \cup {[X |-> a.X, Y |-> a.Y, FRAME |-> a.FRAME, ids |-> Append(a.ids, NaN)] :
              a \in {a \in left : \A b \in right : a.FRAME # b.FRAME}}
    \cup {[X |-> b.X, Y |-> b.Y, FRAME |-> b.FRAME, ids |-> Append(Nulls(k), b.TRACK_ID)] :
              b \in {b \in right : \A a \in left : a.FRAME # b.FRAME}}

(* Variant of OuterMerge: how="inner".                                     *)
InnerMerge(left, right, k) ==
    {[X |-> a.X, Y |-> a.Y, FRAME |-> a.FRAME, ids |-> Append(a.ids, b.TRACK_ID)] :
        <<a, b>> \in {<<a, b>> \in left \X right : SameKey(a, b)}}

(* pd.merge(df, table, how="outer", on=["X", "Y", "FRAME"]); k = number of *)
(* id columns of df.                                                       *)
OuterMerge(left, right, k) ==
    LET both == {[X |-> a.X, Y |-> a.Y, FRAME |-> a.FRAME,
                  ids |-> Append(a.ids, b.TRACK_ID)] :
                     <<a, b>> \in {<<a, b>> \in left \X right : SameKey(a, b)}}
        leftOnly == {[X |-> a.X, Y |-> a.Y, FRAME |-> a.FRAME,
                      ids |-> Append(a.ids, NaN)] :
                        a \in {a \in left : \A b \in right : ~SameKey(a, b)}}
        rightOnly == {[X |-> b.X, Y |-> b.Y, FRAME |-> b.FRAME,
                       ids |-> Append(Nulls(k), b.TRACK_ID)] :
                        b \in {b \in right : \A a \in left : ~SameKey(a, b)}}
    IN both \cup leftOnly \cup rightOnly

RECURSIVE MergeTables(_, _)
MergeTables(ts, k) ==
    IF k = 1
    THEN {[X |-> r.X, Y |-> r.Y, FRAME |-> r.FRAME, ids |-> <<r.TRACK_ID>>] :
              r \in ts[1]}
    ELSE OuterMerge(MergeTables(ts, k - 1), ts[k], k - 1)

(* df.drop(["X", "Y"]) and df.drop_duplicates(): rows [FRAME, ids].        *)
DropDuplicates(rows) == {[FRAME |-> r.FRAME, ids |-> r.ids] : r \in rows}

(* Variant of ValueLess: NaN before every number.                          *)
NullFirstLess(a, b) == a # b /\ (a = NaN \/ (b # NaN /\ a < b))

(* sort_values: ascending, column by column, NaN after every number.       *)
ValueLess(a, b) == a # b /\ (b = NaN \/ (a # NaN /\ a < b))

TupleLess(s, t) ==
    \E i \in 1..Len(s) :
        /\ ValueLess(s[i], t[i])
        /\ \A j \in 1..(i - 1) : s[j] = t[j]

RowLess(r, s) == TupleLess(<<r.FRAME>> \o r.ids, <<s.FRAME>> \o s.ids)

RECURSIVE SortRows(_)
SortRows(rows) ==
    IF rows = {} THEN <<>>
    ELSE LET m == CHOOSE r \in rows : \A s \in rows \ {r} : RowLess(r, s)
         IN <<m>> \o SortRows(rows \ {m})

(* The partial-match filter on one frame group g (a set of rows), for row r.*)
nan_mask(r) == \E c \in 1..Len(r.ids) : r.ids[c] = NaN

(* value_counts of column c in g is 1 for the value of r (NaN is never     *)
(* counted).                                                               *)
unique_mask(g, r, c) ==
    /\ r.ids[c] # NaN
    /\ Cardinality({s \in g : s.ids[c] = r.ids[c]}) = 1

keep_mask(g, r) == \E c \in 1..Len(r.ids) : unique_mask(g, r, c)

(* Variant of keep: no row is dropped.                                     *)
keep_every_row(g, r) == TRUE

keep(g, r) == ~nan_mask(r) \/ keep_mask(g, r)

(* Variant of FrameGroup: the filter without the groupby on FRAME.         *)
WholeTable(table, f) == Range(table)

FrameGroup(table, f) == {r \in Range(table) : r.FRAME = f}

PartialMatchFilter(table) ==
    LET Test(r) == keep(FrameGroup(table, r.FRAME), r)
    IN SelectSeq(table, Test)

----------------------------------------------------------------------------
(* Colocalize.main.                                                        *)

(* Variants of NewRun: diff().gt(2) and diff().ge(1).                      *)
NewRunAfterTwo(prev, cur) == cur - prev > 2

NewRunEachFrame(prev, cur) == cur - prev >= 1

(* g["FRAME"].diff().gt(1): the row starts a new run.                      *)
NewRun(prev, cur) == cur - prev > 1

(* cumsum of the gt(1) marks: the run label of the i-th frame of fs.       *)
RunLabel(fs, i) ==
    Cardinality({j \in 2..i : NewRun(fs[j - 1], fs[j])})

(* The runs of one group, in label order: <<start_frame, end_frame>> from  *)
(* the first and the last row of the sub-group.                            *)
GroupRuns(fs) ==
    LET labels == {RunLabel(fs, i) : i \in 1..Len(fs)}
        Rows(l) == {i \in 1..Len(fs) : RunLabel(fs, i) = l}
    IN [l \in 1..Cardinality(labels) |->
            <<fs[Min(Rows(l - 1))], fs[Max(Rows(l - 1))]>>]

(* The FRAME column of the group of key k, in table order.                 *)
GroupFrames(table, k) ==
    LET Test(r) == r.ids = k
        g == SelectSeq(table, Test)
    IN [i \in 1..Len(g) |-> g[i].FRAME]

RECURSIVE SortKeys(_)
SortKeys(keys) ==
    IF keys = {} THEN <<>>
    ELSE LET m == CHOOSE k \in keys : \A l \in keys \ {k} : TupleLess(k, l)
         IN <<m>> \o SortKeys(keys \ {m})

RECURSIVE Concat(_)
Concat(ss) == IF ss = <<>> THEN <<>> ELSE Head(ss) \o Concat(Tail(ss))

(* Variant of Interactions: groupby with dropna=True, which has no group   *)
(* for a key that holds NaN.                                               *)
InteractionsDropNa(table) ==
    LET keys == SortKeys({k \in {r.ids : r \in Range(table)} :
                             \A c \in 1..Len(k) : k[c] # NaN})
    IN Concat([n \in 1..Len(keys) |->
                 LET runs == GroupRuns(GroupFrames(table, keys[n]))
                 IN [m \in 1..Len(runs) |->
                        [ids |-> keys[n], start_frame |-> runs[m][1],
                         end_frame |-> runs[m][2]]]])

(* interactions: groupby(by=names, dropna=False) walks the keys in sorted  *)
(* order, NaN being a key value like any other.                            *)
Interactions(table) ==
    LET keys == SortKeys({r.ids : r \in Range(table)})
    IN Concat([n \in 1..Len(keys) |->
                 LET runs == GroupRuns(GroupFrames(table, keys[n]))
                 IN [m \in 1..Len(runs) |->
                        [ids |-> keys[n], start_frame |-> runs[m][1],
                         end_frame |-> runs[m][2]]]])

----------------------------------------------------------------------------
(* The cells the pipeline is run on.                                       *)

(* A row of a parsed track file, at pixel (px, py).                        *)
Point(id, t, px, py) ==
    [TRACK_ID |-> id, FRAME |-> t, POSITION_X |-> 4 * px, POSITION_Y |-> 4 * py]

PointKey(p) == <<p.TRACK_ID, p.FRAME, p.POSITION_X, p.POSITION_Y>>

PointLess(p, q) ==
    \E i \in 1..4 : /\ PointKey(p)[i] < PointKey(q)[i]
                     /\ \A j \in 1..(i - 1) : PointKey(p)[j] = PointKey(q)[j]

SameSpot(p, q) == p.TRACK_ID = q.TRACK_ID /\ p.FRAME = q.FRAME

(* Track files of one and of two points; a particle has one point a frame. *)
OnePoint(P) == {<<p>> : p \in P}

TwoPoints(P) == {<<x[1], x[2]>> : x \in {y \in P \X P : ~SameSpot(y[1], y[2])}}

(* The order of the rows of a track file is read only by the mask strategy.*)
TwoPointsSorted(P) ==
    {<<x[1], x[2]>> : x \in {y \in P \X P : ~SameSpot(y[1], y[2])
                                              /\ PointLess(y[1], y[2])}}

Particle(static, maskFile, radius, tracks, mask) ==
    [Static |-> static, MaskFile |-> maskFile, Radius |-> radius,
     TrackFile |-> tracks, Mask |-> mask]

(* A channel with a radius and no mask.  The configuration refuses a radius *)
(* of 0; a radius of a quarter pixel (1) gives radius_px = 0 and a radius  *)
(* of one pixel (4) gives radius_px = 1.                                   *)
Disk(static, radius, tracks) ==
    Particle(static, FALSE, radius, tracks, <<>>)

DiskPoints(ids) == {Point(id, t, x, 0) : id \in ids, t \in Frames, x \in {0, 2}}

(* Two channels with a radius.                                             *)
TwoDisk(ps) ==
    \E r1 \in {1, 4}, r2 \in {1, 4} :
    \E f1 \in OnePoint(DiskPoints({0, 1})) \cup TwoPointsSorted(DiskPoints({0, 1})) :
    \E f2 \in OnePoint(DiskPoints({0})) \cup TwoPointsSorted(DiskPoints({0})) :
        ps = <<Disk(FALSE, r1, f1), Disk(FALSE, r2, f2)>>

(* Three channels with a radius, the third one static or not.              *)
ThreeDisk(ps) ==
    \E f1 \in OnePoint(DiskPoints({0, 1})), f2 \in OnePoint(DiskPoints({0, 1})) :
    \E s \in BOOLEAN, t \in Frames, x \in {0, 2} :
        ps = <<Disk(FALSE, 4, f1), Disk(FALSE, 4, f2),
               Disk(s, 1, <<Point(0, t, x, 0)>>)>>

(* Mask frames of Height rows and Width columns (row y - 1, column x - 1).  *)
FullFrame == [y \in 1..Height |-> [x \in 1..Width |-> 1]]

(* The two ends of the top row: two regions, each on an edge.              *)
EndsFrame ==
    [y \in 1..Height |->
        [x \in 1..Width |-> IF y = 1 /\ x \in {1, Width} THEN 1 ELSE 0]]

(* The first two pixels of the top row.                                    *)
LeftFrame ==
    [y \in 1..Height |->
        [x \in 1..Width |-> IF y = 1 /\ x \in {1, 2} THEN 1 ELSE 0]]

MaskFrames == {FullFrame, EndsFrame, LeftFrame}

(* A mask stack whose frames are all the same.                             *)
Stack(frame) == [t \in 1..(MaxFrame + 1) |-> frame]

Inside == {<<0, 0>>, <<1, 0>>, <<Width - 1, 0>>}

Outside == {<<-1, 0>>, <<Width, 0>>, <<0, -1>>, <<0, Height>>}

(* One point anywhere, or a point of particle 0 at frame 0 and a second    *)
(* point in the mask, in both orders.                                      *)
MaskTrackFiles ==
    OnePoint({Point(id, t, c[1], c[2]) :
                 id \in {0, 1}, t \in Frames, c \in Inside \cup Outside})
    \cup UNION {{<<Point(0, 0, c[1], c[2]), Point(q[1], q[2], d[1], d[2])>>,
                 <<Point(q[1], q[2], d[1], d[2]), Point(0, 0, c[1], c[2])>>} :
                c \in Inside, d \in Inside,
                q \in {u \in {0, 1} \X Frames : u[1] = 1 \/ u[2] > 0}}

MaskParticle(static, tracks, frame) ==
    Particle(static, TRUE, 0, tracks, IF static THEN frame ELSE Stack(frame))

(* A mask channel and a channel with a radius, in both orders.             *)
MaskDisk(ps) ==
    \E s \in BOOLEAN, f \in MaskTrackFiles, m \in MaskFrames, t \in Frames :
        \/ ps = <<MaskParticle(s, f, m), Disk(FALSE, 4, <<Point(0, t, 1, 0)>>)>>
        \/ ps = <<Disk(FALSE, 4, <<Point(0, t, 1, 0)>>), MaskParticle(s, f, m)>>

(* A mask stack of one frame under a track file that can go beyond it.     *)
ShortMovie(ps) ==
    \E t \in Frames, c \in Inside, m \in MaskFrames :
        ps = <<Particle(FALSE, TRUE, 0, <<Point(0, t, c[1], c[2])>>, <<m>>),
               Disk(FALSE, 4, <<Point(0, 0, 1, 0)>>)>>

(* Two static mask channels: a cell without a movie.                       *)
AllStatic(ps) ==
    \E c \in Inside, m \in MaskFrames :
        ps = <<MaskParticle(TRUE, <<Point(0, 0, c[1], c[2])>>, m),
               MaskParticle(TRUE, <<Point(1, 0, 0, 0)>>, FullFrame)>>

(* A channel with a radius whose one track point and whose radius are not  *)
(* whole numbers of pixels, beside a channel on the pixel grid.            *)
SubPixel(ps) ==
    \E qx \in -MaxQuarter..MaxQuarter, qy \in {-2, 0, 1}, radius \in {1, 2, 4, 6, 10} :
        ps = <<Disk(FALSE, radius,
                    <<[TRACK_ID |-> 0, FRAME |-> 0,
                       POSITION_X |-> qx, POSITION_Y |-> qy]>>),
               Disk(FALSE, 4, <<Point(0, 0, 0, 0)>>)>>

(* Three channels of radius 1 pixel in a row, two pixels apart: the first  *)
(* overlaps the second and the second the third.                           *)
DiskRow(ps) ==
    \E t \in Frames, u \in Frames :
        ps = <<Disk(FALSE, 4, <<Point(0, t, 0, 0)>>),
               Disk(FALSE, 4, <<Point(0, t, 2, 0)>>),
               Disk(FALSE, 4, <<Point(0, u, 4, 0)>>)>>

(* Two mask channels whose one track point lies on a zero pixel.           *)
BackgroundOnly(ps) ==
    \E t \in Frames, u \in Frames, id \in {0, 1} :
        ps = <<MaskParticle(FALSE, <<Point(id, t, 1, 0)>>, EndsFrame),
               MaskParticle(FALSE, <<Point(0, u, 1, 0)>>, EndsFrame)>>

----------------------------------------------------------------------------
(* The pipeline of one cell (Pipeline.run_dctracker).                      *)

(* No Pipeline is running.                                                 *)
NoPool ==
    /\ params = <<>>
    /\ processes = 0
    /\ taskqueue = <<>>
    /\ job = <<>>
    /\ outcome = <<>>
    /\ pool_pc = ""

(* No configuration is being validated.                                    *)
NoConfig ==
    /\ config = <<>>
    /\ config_pc = ""
    /\ strategy = <<>>

(* No metadata file is being parsed.                                       *)
NoMeta ==
    /\ meta_file = [is_file |-> FALSE, lines |-> <<>>]
    /\ parser = ""
    /\ line_no = 0
    /\ header = <<>>
    /\ assays = <<>>
    /\ experiment = <<>>
    /\ meta_pc = ""

(* No assay is being built.                                                *)
NoAssay ==
    /\ assay_path = <<>>
    /\ files = {}
    /\ channels = <<>>
    /\ cell_dirs = <<>>
    /\ cells = <<>>
    /\ log = <<>>
    /\ assay_pc = ""

(* No flood fill is running.                                               *)
NoFill ==
    /\ fill_frame = <<>>
    /\ fill_seed = <<0, 0>>
    /\ visited = {}
    /\ completed = {}
    /\ popped = <<>>
    /\ fill_pc = ""

(* No run is being prepared.                                               *)
NoRun ==
    /\ run_file = <<>>
    /\ metadata = <<>>
    /\ replicate_no = 0
    /\ no_analysis_directory = TRUE
    /\ dctracker_args = <<>>
    /\ cell_pc = <<>>
    /\ disk = {}
    /\ run_pc = ""

(* No object is being iterated.                                            *)
NoIter ==
    /\ it_cells = <<>>
    /\ it_index = <<>>
    /\ it_pc = <<>>
    /\ yielded = <<>>
    /\ iter_calls = <<>>
    /\ got = <<>>

Init ==
    /\ \/ TwoDisk(particles)
       \/ ThreeDisk(particles)
       \/ MaskDisk(particles)
       \/ ShortMovie(particles)
       \/ AllStatic(particles)
       \/ SubPixel(particles)
       \/ DiskRow(particles)
       \/ BackgroundOnly(particles)
    /\ pc = "Loaded"
    /\ frame_count = 0
    /\ tables = <<>>
    /\ merged = <<>>
    /\ df = <<>>
    /\ interactions = <<>>
    /\ error = ""
    /\ written = <<>>
    /\ NoPool
    /\ NoConfig
    /\ NoMeta
    /\ NoAssay
    /\ NoFill
    /\ NoRun
    /\ NoIter

(* DCTracker.main, the frame_count loop.  UnboundLocalError is not caught  *)
(* by run_dctracker.                                                       *)
CountFrames ==
    /\ pc = "Loaded"
    /\ LET fc == FrameCount(particles)
       IN IF fc.error # ""
          THEN /\ pc' = "Failed"
               /\ error' = fc.error
               /\ UNCHANGED frame_count
          ELSE /\ pc' = "Counted"
               /\ frame_count' = fc.value
               /\ UNCHANGED error
    /\ UNCHANGED <<particles, tables, merged, df, interactions, written>>
    /\ UNCHANGED outerVars

(* DCTracker.main, one turn of the loop that builds the tables.  stable is *)
(* the outcome of the sort of the overlap filter on rows of equal distance.*)
BuildTable ==
    /\ pc = "Counted"
    /\ Len(tables) < Len(particles)
    /\ \E stable \in BOOLEAN :
          LET t == ChannelTable(particles[Len(tables) + 1], frame_count, stable)
          IN IF t.error # ""
             THEN /\ pc' = "Failed"
                  /\ error' = t.error
                  /\ UNCHANGED tables
             ELSE /\ tables' = Append(tables, t.table)
                  /\ UNCHANGED <<pc, error>>
    /\ UNCHANGED <<particles, frame_count, merged, df, interactions, written>>
    /\ UNCHANGED outerVars

(* DCTracker.main: merge, drop X and Y, drop_duplicates, sort_values.      *)
Merge ==
    /\ pc = "Counted"
    /\ Len(tables) = Len(particles)
    /\ merged' = SortRows(DropDuplicates(MergeTables(tables, Len(tables))))
    /\ pc' = "Merged"
    /\ UNCHANGED <<particles, frame_count, tables, df, interactions, error, written>>
    /\ UNCHANGED outerVars

(* DCTracker.main: the partial-match filter and DCTracker.csv.  pd.concat  *)
(* of no frame raises ValueError, which run_dctracker does not catch.      *)
Filter ==
    /\ pc = "Merged"
    /\ IF merged = <<>>
       THEN /\ pc' = "Failed"
            /\ error' = "ValueError"
            /\ UNCHANGED <<df, written>>
       ELSE /\ df' = PartialMatchFilter(merged)
            /\ written' = Append(written, "DCTracker.csv")
            /\ pc' = "Written"
            /\ UNCHANGED error
    /\ UNCHANGED <<particles, frame_count, tables, merged, interactions>>
    /\ UNCHANGED outerVars

(* Colocalize.main.  Naming the columns of the DataFrame of no interval    *)
(* raises ValueError.                                                      *)
Colocalize ==
    /\ pc = "Written"
    /\ IF df = <<>>
       THEN /\ pc' = "Failed"
            /\ error' = "ValueError"
            /\ UNCHANGED <<interactions, written>>
       ELSE /\ interactions' = Interactions(df)
            /\ written' = Append(written, "Colocalize.csv")
            /\ pc' = "RunsDetected"
            /\ UNCHANGED error
    /\ UNCHANGED <<particles, frame_count, tables, merged, df>>
    /\ UNCHANGED outerVars

(* Variant of AfterColocalize: write_json in a finally clause.             *)
AfterAnyEnd == pc \in {"RunsDetected", "Failed"}

(* run_dctracker reaches write_json when Colocalize has returned.          *)
AfterColocalize == pc = "RunsDetected"

(* Pipeline.write_json.                                                    *)
WriteJson ==
    /\ AfterColocalize
    /\ written' = Append(written, "Metadata.json")
    /\ pc' = "Done"
    /\ UNCHANGED <<particles, frame_count, tables, merged, df, interactions, error>>
    /\ UNCHANGED outerVars

Next ==
    \/ CountFrames
    \/ BuildTable
    \/ Merge
    \/ Filter
    \/ Colocalize
    \/ WriteJson

Spec == Init /\ [][Next]_vars

----------------------------------------------------------------------------
(* Pipeline.__init__: pool.map(self.run_dctracker, params).                *)

(* No cell is being followed step by step.                                 *)
NoCell ==
    /\ particles = <<>>
    /\ pc = ""
    /\ frame_count = 0
    /\ tables = <<>>
    /\ merged = <<>>
    /\ df = <<>>
    /\ interactions = <<>>
    /\ error = ""
    /\ written = <<>>

(* What DCTracker(params) and Colocalize(params) can raise for a cell: ""  *)
(* when the cell goes through.                                             *)
CellErrors == {"", "InvalidCentroidError", "ValueError"}

(* How run_dctracker ends for a cell: "Done", or the exception that leaves *)
(* it.  The handler of InvalidCentroidError evaluates self.context, which  *)
(* Pipeline does not define (the attribute is CONTEXT), before the warning *)
(* is logged: AttributeError leaves the handler.  Any other exception is   *)
(* not caught.                                                             *)
run_dctracker(raised) ==
    IF raised = "InvalidCentroidError" THEN "AttributeError"
    ELSE IF raised = "" THEN "Done" ELSE raised

(* Pool.map's chunksize: divmod(len(iterable), len(pool) * 4), one more    *)
(* when there is a remainder.                                              *)
chunksize(n, procs) ==
    n \div (procs * 4) + (IF n % (procs * 4) # 0 THEN 1 ELSE 0)

(* The task batches of Pool.map: the cells 1..n cut into consecutive       *)
(* chunks of size cells (the last one may be shorter).                     *)
Chunks(n, size) ==
    [k \in 1..((n + size - 1) \div size) |->
        [j \in 1..Min({size, n - (k - 1) * size}) |-> (k - 1) * size + j]]

PoolInit ==
    /\ NoCell
    /\ NoConfig
    /\ NoMeta
    /\ NoAssay
    /\ NoFill
    /\ NoRun
    /\ NoIter
    /\ \E n \in 1..MaxCells : params \in [1..n -> CellErrors]
    /\ processes \in 1..MaxProcesses
    /\ taskqueue = <<>>
    /\ job = [w \in 1..processes |-> <<>>]
    /\ outcome = [c \in 1..Len(params) |-> "Pending"]
    /\ pool_pc = "Created"

(* pool.map is called: the chunks are queued.                              *)
Map ==
    /\ pool_pc = "Created"
    /\ taskqueue' = Chunks(Len(params), chunksize(Len(params), processes))
    /\ pool_pc' = "Mapping"
    /\ UNCHANGED <<params, processes, job, outcome>>
    /\ UNCHANGED <<cellVars, configVars, metaVars, assayVars, fillVars, runVars, iterVars>>

(* An idle worker takes the next chunk.                                    *)
TakeTask ==
    /\ pool_pc = "Mapping"
    /\ taskqueue # <<>>
    /\ \E w \in 1..processes :
           /\ job[w] = <<>>
           /\ job' = [job EXCEPT ![w] = Head(taskqueue)]
    /\ taskqueue' = Tail(taskqueue)
    /\ UNCHANGED <<params, processes, outcome, pool_pc>>
    /\ UNCHANGED <<cellVars, configVars, metaVars, assayVars, fillVars, runVars, iterVars>>

(* A worker runs run_dctracker on the next cell of its chunk (mapstar is   *)
(* list(map(func, chunk))): an exception that leaves run_dctracker ends    *)
(* the chunk, the cells left in it are not run.                            *)
RunCell ==
    /\ pool_pc = "Mapping"
    /\ \E w \in 1..processes :
           /\ job[w] # <<>>
           /\ LET c == Head(job[w])
                  end == run_dctracker(params[c])
              IN /\ outcome' = [outcome EXCEPT ![c] = end]
                 /\ job' = [job EXCEPT ![w] = IF end = "Done" THEN Tail(job[w])
                                                               ELSE <<>>]
    /\ UNCHANGED <<params, processes, taskqueue, pool_pc>>
    /\ UNCHANGED <<cellVars, configVars, metaVars, assayVars, fillVars, runVars, iterVars>>

(* Every chunk has reported: pool.map returns, or raises the exception of  *)
(* a chunk in Pipeline.__init__.                                           *)
MapReturn ==
    /\ pool_pc = "Mapping"
    /\ taskqueue = <<>>
    /\ \A w \in 1..processes : job[w] = <<>>
    /\ pool_pc' = IF \A c \in 1..Len(params) : outcome[c] \in {"Pending", "Done"}
                  THEN "Returned" ELSE "Raised"
    /\ UNCHANGED <<params, processes, taskqueue, job, outcome>>
    /\ UNCHANGED <<cellVars, configVars, metaVars, assayVars, fillVars, runVars, iterVars>>

PoolNext ==
    \/ Map
    \/ TakeTask
    \/ RunCell
    \/ MapReturn

PoolSpec == PoolInit /\ [][PoolNext]_vars

----------------------------------------------------------------------------
(* parse_config: the validation of a configuration file.                   *)

(* None: the value of a key that is absent from the file and has a default *)
(* of None, or no default.                                                 *)
None == "None"

(* The [Input] sub-sections a file can hold.  Radius is absent, zero, a    *)
(* positive float or a text that is no float (values as written); MaskFile *)
(* and TrackFile are absent or a path; Static is an allowed option or not. *)
Sections ==
    [Static : {"no", "maybe"},
     TrackFile : {None, "tracks.csv"},
     Radius : {None, "0.0", "1.0", "wide"},
     MaskFile : {None, "mask.tif"}]

(* Python's truth value of a value of the file after validation: None, 0.0 *)
(* and the empty string are false.                                         *)
Truthy(v) == v \notin {None, "0.0", ""}

(* Variant of NoFootprint: a section with both a radius and a mask is      *)
(* refused too.                                                            *)
NotExactlyOne(section) == Truthy(section.Radius) = Truthy(section.MaskFile)

(* The test of the loop over the particles: neither a radius nor a mask.   *)
NoFootprint(section) == ~Truthy(section.Radius) /\ ~Truthy(section.MaskFile)

(* What the loop over the validator's errors raises for a section: a bad   *)
(* Static (VdtValueError) and a bad Radius (VdtTypeError) reach a message  *)
(* built with three fields from one tuple, which raises IndexError; an     *)
(* absent TrackFile raises ConfigError.  MaskFile is any string.           *)
SectionErrors(section) ==
    (IF section.Static \notin {"y", "yes", "Yes", "n", "no", "No"}
     THEN {"IndexError"} ELSE {})
    \cup (IF section.TrackFile = None THEN {"ConfigError"} ELSE {})
    \cup (IF section.Radius \notin {None, "0.0", "1.0"} THEN {"IndexError"} ELSE {})

(* The exceptions parse_config can raise for the sections cfg, "" when it  *)
(* returns the configuration.  The loop raises for the first entry of      *)
(* flatten_errors, whose order depends on the version of configobj: any    *)
(* error of any section can be the first.                                  *)
parse_config(cfg) ==
    LET flatten_errors == UNION {SectionErrors(cfg[i]) : i \in 1..Len(cfg)}
    IN IF Len(cfg) < 2 THEN {"ConfigError"}
       ELSE IF \E i \in 1..Len(cfg) : NoFootprint(cfg[i]) THEN {"ConfigError"}
       ELSE IF flatten_errors # {} THEN flatten_errors
       ELSE {""}

(* A configuration file is read.                                           *)
ConfigInit ==
    /\ NoCell
    /\ NoPool
    /\ NoMeta
    /\ NoAssay
    /\ NoFill
    /\ NoRun
    /\ NoIter
    /\ \E n \in 1..MaxInputs : config \in [1..n -> Sections]
    /\ config_pc = "Read"
    /\ strategy = <<>>

ParseConfig ==
    /\ config_pc = "Read"
    /\ \E raised \in parse_config(config) :
           config_pc' = IF raised = "" THEN "Accepted" ELSE raised
    /\ UNCHANGED <<config, strategy>>
    /\ UNCHANGED <<cellVars, poolVars, metaVars, assayVars, fillVars, runVars, iterVars>>

(* DCTracker.main, the loop over the particles: a particle with a mask     *)
(* file takes the mask strategy, any other the radius.                     *)
SelectStrategy ==
    /\ config_pc = "Accepted"
    /\ strategy' = [i \in 1..Len(config) |->
                       IF Truthy(config[i].MaskFile) THEN "mask" ELSE "radius"]
    /\ config_pc' = "Selected"
    /\ UNCHANGED config
    /\ UNCHANGED <<cellVars, poolVars, metaVars, assayVars, fillVars, runVars, iterVars>>

ConfigNext ==
    \/ ParseConfig
    \/ SelectStrategy

ConfigSpec == ConfigInit /\ [][ConfigNext]_vars

----------------------------------------------------------------------------
(* _parse_metadata: the parsing of a metadata file.  A string is the       *)
(* sequence of its characters.                                             *)

(* str.strip: the string without its leading and trailing white space.     *)
RECURSIVE Strip(_)
Strip(s) ==
    IF s = <<>> THEN s
    ELSE IF Head(s) = " " THEN Strip(Tail(s))
    ELSE IF s[Len(s)] = " " THEN Strip(SubSeq(s, 1, Len(s) - 1))
    ELSE s

(* str.split(","): the fields between the commas, at least one.            *)
RECURSIVE Split(_)
Split(s) ==
    IF \A i \in 1..Len(s) : s[i] # "," THEN <<s>>
    ELSE LET c == CHOOSE i \in 1..Len(s) :
                      s[i] = "," /\ \A j \in 1..(i - 1) : s[j] # ","
         IN <<SubSeq(s, 1, c - 1)>> \o Split(SubSeq(s, c + 1, Len(s)))

(* ",".join: the fields with a comma between them.                         *)
RECURSIVE Join(_)
Join(fields) ==
    IF fields = <<>> THEN <<>>
    ELSE IF Len(fields) = 1 THEN fields[1]
    ELSE fields[1] \o <<",">> \o Join(Tail(fields))

(* l.startswith("#").                                                      *)
StartsWithHash(l) == l # <<>> /\ Head(l) = "#"

(* Variant of NextHeader: every '#' line replaces the header.              *)
LastHeader(h, l) == Split(Strip(Tail(l)))

(* The header after the '#' line l: the first '#' line is kept.            *)
NextHeader(h, l) == IF h = <<>> THEN Split(Strip(Tail(l))) ELSE h

(* dict(map(lambda i,j : (i,j), header, l)): the pairs up to the shorter   *)
(* of the two lists; a later pair replaces an earlier one of the same key. *)
Dict(h, l) ==
    LET n == Min({Len(h), Len(l)})
    IN [name \in {h[i] : i \in 1..n} |->
            l[Max({i \in 1..n : h[i] = name})]]

(* The qualifiers of the data line with fields l; <<>> stands for None.    *)
Qualifiers(h, l) ==
    IF Len(l) > 1
    THEN IF h # <<>> THEN Dict(h, l)
         ELSE [key \in {<<"description">>} |-> Join(SubSeq(l, 1, Len(l) - 1))]
    ELSE <<>>

(* pathlib.Path of a string without separators: the empty string is the    *)
(* current directory.                                                      *)
Path(str) == IF str = <<>> THEN <<".">> ELSE str

(* Assay.__init__, without a configuration.                                *)
NewAssay(path, qualifiers) == [path |-> Path(path), qualifiers |-> qualifiers]

(* The lines a metadata file is made of.                                   *)
Lines ==
    { <<"#", "a", ",", "b">>, <<"#", "b">>, <<"#", "a", ",", "a">>, <<"#">>,
      <<"#", "a", ",", "b", ",", "c">>,
      <<"a">>, <<"b", ",", "a">>, <<"a", ",", "b", ",", "a">>, <<"a", ",">>,
      <<" ", "#", "a">>, <<>> }

MetaInit ==
    /\ NoCell
    /\ NoPool
    /\ NoConfig
    /\ NoAssay
    /\ NoFill
    /\ NoRun
    /\ NoIter
    /\ \/ meta_file = [is_file |-> FALSE, lines |-> <<>>]
       \/ \E n \in 0..MaxLines : \E ls \in [1..n -> Lines] :
              meta_file = [is_file |-> TRUE, lines |-> ls]
    /\ parser \in {"Experiment", "Metadata"}
    /\ line_no = 0
    /\ header = <<>>
    /\ assays = <<>>
    /\ experiment = <<>>
    /\ meta_pc = "Closed"

(* The test of the file and the opening of it.                             *)
OpenFile ==
    /\ meta_pc = "Closed"
    /\ meta_pc' = IF meta_file.is_file THEN "Reading"
                  ELSE "RuntimeError: Metadata file not found."
    /\ UNCHANGED <<meta_file, parser, line_no, header, assays, experiment>>
    /\ UNCHANGED <<cellVars, poolVars, configVars, assayVars, fillVars, runVars, iterVars>>

(* One turn of the loop, on a line that starts with '#'.                   *)
ReadComment ==
    /\ meta_pc = "Reading"
    /\ line_no < Len(meta_file.lines)
    /\ LET l == meta_file.lines[line_no + 1]
       IN /\ StartsWithHash(l)
          /\ header' = NextHeader(header, l)
    /\ line_no' = line_no + 1
    /\ UNCHANGED <<meta_file, parser, assays, experiment, meta_pc>>
    /\ UNCHANGED <<cellVars, poolVars, configVars, assayVars, fillVars, runVars, iterVars>>

(* One turn of the loop, on a data line.                                   *)
ReadData ==
    /\ meta_pc = "Reading"
    /\ line_no < Len(meta_file.lines)
    /\ ~StartsWithHash(meta_file.lines[line_no + 1])
    /\ LET l == Split(Strip(meta_file.lines[line_no + 1]))
           path == l[Len(l)]
       IN IF parser = "Experiment"
          THEN /\ assays' = Append(assays, <<path, Qualifiers(header, l)>>)
               /\ UNCHANGED experiment
          ELSE /\ experiment' = Append(experiment,
                                       NewAssay(path, Qualifiers(header, l)))
               /\ UNCHANGED assays
    /\ line_no' = line_no + 1
    /\ UNCHANGED <<meta_file, parser, header, meta_pc>>
    /\ UNCHANGED <<cellVars, poolVars, configVars, assayVars, fillVars, runVars, iterVars>>

(* The end of the file: Experiment.from_file makes an Assay of each pair,  *)
(* Metadata refuses a file that gave no assay.                             *)
EndOfFile ==
    /\ meta_pc = "Reading"
    /\ line_no = Len(meta_file.lines)
    /\ IF parser = "Experiment"
       THEN /\ experiment' = [i \in 1..Len(assays) |->
                                 NewAssay(assays[i][1], assays[i][2])]
            /\ meta_pc' = "Returned"
       ELSE /\ meta_pc' = IF Len(experiment) < 1
                          THEN "RuntimeError: Metadata file is empty."
                          ELSE "Returned"
            /\ UNCHANGED experiment
    /\ UNCHANGED <<meta_file, parser, line_no, header, assays>>
    /\ UNCHANGED <<cellVars, poolVars, configVars, assayVars, fillVars, runVars, iterVars>>

MetaNext ==
    \/ OpenFile
    \/ ReadComment
    \/ ReadData
    \/ EndOfFile

MetaSpec == MetaInit /\ [][MetaNext]_vars

----------------------------------------------------------------------------
(* Assay._process_file_structure: the discovery of the cells of an assay.  *)
(* A path is the sequence of its parts; <<>> is the assay folder itself.   *)

(* The names of the parts, in the order of their strings.                  *)
NameOrder == <<"488", "a", "b", "data", "mask.tif", "spots.csv">>

NameRank(name) == CHOOSE i \in 1..Len(NameOrder) : NameOrder[i] = name

(* The order of pathlib paths: part by part, a prefix first.               *)
PathLess(a, b) ==
    \E i \in 1..(Len(b)) :
        /\ \A j \in 1..(i - 1) : j <= Len(a) /\ a[j] = b[j]
        /\ \/ Len(a) = i - 1
           \/ Len(a) >= i /\ NameRank(a[i]) < NameRank(b[i])

(* list(cell_dirs) followed by sort().                                     *)
RECURSIVE SortPaths(_)
SortPaths(S) ==
    IF S = {} THEN <<>>
    ELSE LET first == CHOOSE a \in S : \A b \in S \ {a} : PathLess(a, b)
         IN <<first>> \o SortPaths(S \ {first})

(* path.match(track_file) for a pattern without wild cards: the last parts *)
(* of the whole path are the parts of the pattern.                         *)
Match(path, track_file) ==
    /\ Len(path) >= Len(track_file)
    /\ SubSeq(path, Len(path) - Len(track_file) + 1, Len(path)) = track_file

(* The cell folder of a file that matches a track file: the parts after    *)
(* the assay path and before the track file.                               *)
CellPath(path, track_file) ==
    SubSeq(path, Len(assay_path) + 1, Len(path) - Len(track_file))

(* The loop over rglob('*'): the folders that hold a file matching one of  *)
(* the track files.                                                        *)
FindCellDirs ==
    {CellPath(assay_path \o f, channels[c].track_file) :
        <<f, c>> \in {fc \in files \X (1..Len(channels)) :
                        Match(assay_path \o fc[1], channels[fc[2]].track_file)}}

(* Path.is_file of a file of a cell folder.                                *)
IsFile(directory, file) == (directory \o file) \in files

(* Cell._prepare_cell: the files the folder lacks, in the order of the     *)
(* tests; the first one is logged and RuntimeError raised.                 *)
MissingFiles(directory) ==
    Concat([c \in 1..Len(channels) |->
        IF ~IsFile(directory, channels[c].track_file)
        THEN <<channels[c].track_file>>
        ELSE IF channels[c].mask_file # <<>>
                /\ ~IsFile(directory, channels[c].mask_file)
        THEN <<channels[c].mask_file>>
        ELSE <<>>])

(* str(directory).                                                         *)
Label(directory) == IF directory = <<>> THEN <<".">> ELSE directory

(* Variant of RestAfterSkip: a folder that lacks a file ends the loop.     *)
StopAfterSkip(queue) == <<>>

(* The folders left after one that raised RuntimeError: continue.          *)
RestAfterSkip(queue) == Tail(queue)

(* The track files and the mask files of the configurations; <<>> is no    *)
(* mask file.                                                              *)
TrackFiles == {<<"spots.csv">>, <<"488", "spots.csv">>}

MaskFiles == {<<>>, <<"mask.tif">>}

(* The files an assay folder can hold.                                     *)
AssayFiles ==
    { <<"spots.csv">>, <<"488", "spots.csv">>, <<"mask.tif">>,
      <<"a", "spots.csv">>, <<"a", "488", "spots.csv">>, <<"a", "mask.tif">>,
      <<"b", "488", "spots.csv">>, <<"b", "spots.csv">> }

AssayInit ==
    /\ NoCell
    /\ NoPool
    /\ NoConfig
    /\ NoMeta
    /\ NoFill
    /\ NoRun
    /\ NoIter
    /\ assay_path \in {<<"data">>, <<"data", "488">>}
    /\ files \in SUBSET AssayFiles
    /\ channels \in [1..2 -> [track_file : TrackFiles, mask_file : MaskFiles]]
    /\ cell_dirs = <<>>
    /\ cells = <<>>
    /\ log = <<>>
    /\ assay_pc = "New"

(* The search of the cell folders, the warning when there is none, and the *)
(* sort.                                                                   *)
Scan ==
    /\ assay_pc = "New"
    /\ cell_dirs' = SortPaths(FindCellDirs)
    /\ log' = IF FindCellDirs = {}
              THEN Append(log, [warning |-> "No valid cell folder were found",
                                folder |-> assay_path, file |-> <<>>])
              ELSE log
    /\ assay_pc' = "Cells"
    /\ UNCHANGED <<assay_path, files, channels, cells>>
    /\ UNCHANGED <<cellVars, poolVars, configVars, metaVars, fillVars, runVars, iterVars>>

(* One turn of the loop over the folders: the folder has every file.       *)
AddCell ==
    /\ assay_pc = "Cells"
    /\ cell_dirs # <<>>
    /\ MissingFiles(Head(cell_dirs)) = <<>>
    /\ cells' = Append(cells, [label |-> Label(Head(cell_dirs)),
                               path |-> assay_path \o Head(cell_dirs)])
    /\ cell_dirs' = Tail(cell_dirs)
    /\ UNCHANGED <<assay_path, files, channels, log, assay_pc>>
    /\ UNCHANGED <<cellVars, poolVars, configVars, metaVars, fillVars, runVars, iterVars>>

(* One turn of the loop over the folders: the folder lacks a file.         *)
SkipCell ==
    /\ assay_pc = "Cells"
    /\ cell_dirs # <<>>
    /\ MissingFiles(Head(cell_dirs)) # <<>>
    /\ log' = Append(log, [warning |-> "does not contain the file",
                           folder |-> assay_path \o Head(cell_dirs),
                           file |-> Head(MissingFiles(Head(cell_dirs)))])
    /\ cell_dirs' = RestAfterSkip(cell_dirs)
    /\ UNCHANGED <<assay_path, files, channels, cells, assay_pc>>
    /\ UNCHANGED <<cellVars, poolVars, configVars, metaVars, fillVars, runVars, iterVars>>

AssayNext ==
    \/ Scan
    \/ AddCell
    \/ SkipCell

AssaySpec == AssayInit /\ [][AssayNext]_vars

----------------------------------------------------------------------------
(* mask_to_table, one track point: the centroid lookup and the while loop, *)
(* one pop at a time.                                                      *)

(* The frames of FillHeight rows and FillWidth columns of zeros and ones.  *)
BinaryFrames == [1..FillHeight -> [1..FillWidth -> {0, 1}]]

(* Larger frames with a narrow region along the right or the bottom edge   *)
(* and a background first column or row.                                   *)
EdgeFrames ==
    { << <<0, 1, 0, 1>>,
         <<0, 0, 1, 1>>,
         <<0, 1, 1, 1>> >>,
      << <<0, 0, 0>>,
         <<1, 0, 1>>,
         <<0, 1, 1>>,
         <<1, 1, 1>> >> }

(* The centroids: on the frame, and one pixel off it on every side.        *)
Seeds == (-1..FillWidth) \X (-1..FillHeight)

(* Variant of NotCompleted: every foreground neighbour is added.           *)
AlwaysNew(n, done) == TRUE

(* if not n in completed.                                                  *)
NotCompleted(n, done) == n \notin done

FillInit ==
    /\ NoCell
    /\ NoPool
    /\ NoConfig
    /\ NoMeta
    /\ NoAssay
    /\ NoRun
    /\ NoIter
    /\ fill_frame \in BinaryFrames \cup EdgeFrames
    /\ fill_seed \in Seeds
    /\ visited = {}
    /\ completed = {}
    /\ popped = <<>>
    /\ fill_pc = "Centroid"

(* The lookup of the centroid: IndexError raises InvalidCentroidError, a   *)
(* nonzero pixel is the first pixel to visit, a zero pixel leaves visited  *)
(* empty.                                                                  *)
SeedLookup ==
    /\ fill_pc = "Centroid"
    /\ IF LookupFails(fill_frame, fill_seed[1], fill_seed[2])
       THEN /\ fill_pc' = "InvalidCentroidError"
            /\ UNCHANGED visited
       ELSE /\ fill_pc' = "Fill"
            /\ visited' = IF MaskValue(fill_frame, fill_seed[1], fill_seed[2]) # 0
                          THEN {fill_seed} ELSE {}
    /\ UNCHANGED <<fill_frame, fill_seed, completed, popped>>
    /\ UNCHANGED <<cellVars, poolVars, configVars, metaVars, assayVars, runVars, iterVars>>

(* One turn of the while loop: set.pop() hands out any pixel of visited.   *)
Pop ==
    /\ fill_pc = "Fill"
    /\ \E v \in visited :
          LET done == completed \cup {v}
              new == {n \in {<<v[1] + d[1], v[2] + d[2]>> : d \in neighbour_dist} :
                         NotCompleted(n, done) /\ Foreground(fill_frame, n)}
          IN /\ completed' = done
             /\ visited' = (visited \ {v}) \cup new
             /\ popped' = [p \in DOMAIN popped \cup {v} |->
                              IF p \in DOMAIN popped
                              THEN popped[p] + (IF p = v THEN 1 ELSE 0)
                              ELSE 1]
    /\ UNCHANGED <<fill_frame, fill_seed, fill_pc>>
    /\ UNCHANGED <<cellVars, poolVars, configVars, metaVars, assayVars, runVars, iterVars>>

(* The end of the while loop: visited is empty.                            *)
FillDone ==
    /\ fill_pc = "Fill"
    /\ visited = {}
    /\ fill_pc' = "Done"
    /\ UNCHANGED <<fill_frame, fill_seed, visited, completed, popped>>
    /\ UNCHANGED <<cellVars, poolVars, configVars, metaVars, assayVars, runVars, iterVars>>

FillNext ==
    \/ SeedLookup
    \/ Pop
    \/ FillDone

FillSpec == FillInit /\ [][FillNext]_vars

(* The loop is run by one thread that does nothing else: a turn that can   *)
(* be taken is taken.                                                      *)
FillLive == FillSpec /\ WF_vars(FillNext)

----------------------------------------------------------------------------
(* The preparation of a run (Runner.parse_metadata, Runner.prepare_run)    *)
(* and the writes of its cells (Pipeline).  A line of the metadata file is *)
(* a sequence of characters; a path is the sequence of its parts, and the  *)
(* replicate paths of the metadata have one part of one character.         *)

(* The characters the pattern [^0-9a-zA-Z-] does not match.                *)
Kept == {"a", "b", "c", "d", "s", "v", "w", "x", "y", "z", "1", "2", "-"}

RECURSIVE DropRun(_)
DropRun(s) == IF s # <<>> /\ Head(s) \notin Kept THEN DropRun(Tail(s)) ELSE s

(* re.sub('[^0-9a-zA-Z-]+', '_', s): every run of other characters becomes *)
(* one underscore.                                                         *)
RECURSIVE Sanitize(_)
Sanitize(s) ==
    IF s = <<>> THEN <<>>
    ELSE IF Head(s) \in Kept THEN <<Head(s)>> \o Sanitize(Tail(s))
    ELSE <<"_">> \o Sanitize(DropRun(s))

(* metadata[l[0]].append([l[1], l[2]]), the key added when it is new.  A   *)
(* dict keeps its keys in the order of insertion.                          *)
AddEntry(md, l) ==
    IF \E i \in 1..Len(md) : md[i].Condition = l[1]
    THEN [i \in 1..Len(md) |->
             IF md[i].Condition = l[1]
             THEN [md[i] EXCEPT !.Replicates = Append(@, <<l[2], l[3]>>)]
             ELSE md[i]]
    ELSE Append(md, [Condition |-> l[1], Replicates |-> <<<<l[2], l[3]>>>>])

(* Runner.parse_metadata on the lines left, md being the dict so far:      *)
(* [error, metadata].  A line is skipped when it starts with '#' and is    *)
(* not blank.                                                              *)
RECURSIVE parse_metadata(_, _)
parse_metadata(lines, md) ==
    IF lines = <<>> THEN [error |-> "", metadata |-> md]
    ELSE LET l == Head(lines)
             f == Split(Strip(l))
         IN IF ~StartsWithHash(l) \/ Strip(l) = <<>>
            THEN IF Len(f) # 3
                 THEN [error |-> "RuntimeError", metadata |-> md]
                 ELSE parse_metadata(Tail(lines), AddEntry(md, f))
            ELSE parse_metadata(Tail(lines), md)

(* The two loops of prepare_run: the [condition, replicate] pairs in the   *)
(* order the loops visit them.                                             *)
RECURSIVE Replicates(_)
Replicates(md) ==
    IF md = <<>> THEN <<>>
    ELSE [i \in 1..Len(Head(md).Replicates) |->
             [Condition |-> Head(md).Condition,
              Replicate |-> Head(md).Replicates[i]]] \o Replicates(Tail(md))

(* The file system: the directories that exist, and for each the cell      *)
(* folders the rglob loop finds (the folders holding a file that matches   *)
(* a file name of the configuration).                                      *)
Directories == {<<"x">>, <<"y">>, <<"w">>, <<"z">>}

CellFolders(path) ==
    IF path = <<"x">> THEN {<<"x", "c">>, <<"x", "d">>}
    ELSE IF path = <<"y">> THEN {<<"y", "c">>}
    ELSE IF path = <<"w">> THEN {<<"w", "s", "c">>, <<"w", "c">>}
    ELSE IF path = <<"z">> THEN {<<"z", "c">>}
    ELSE {}

(* The cell folders that lack a file of the configuration: parse_cell      *)
(* raises InvalidInputError.                                               *)
Incomplete == {<<"w", "c">>, <<"z", "c">>}

(* A cell of pd.DataFrame(folder_lst): the shorter rows are filled with    *)
(* None.                                                                   *)
PartAt(folder, k) == IF k <= Len(folder) THEN folder[k] ELSE "None"

Columns(folders) ==
    {k \in 1..3 : \E f \in folders : k <= Len(f)}

(* unique_cols(df): the columns whose values are all the value of the      *)
(* first row.                                                              *)
unique_cols(folders) ==
    {k \in Columns(folders) : \A f, g \in folders : PartAt(f, k) = PartAt(g, k)}

(* label_start: -1, or the index, from 0, of the first column that varies. *)
label_start(folders) ==
    IF unique_cols(folders) = Columns(folders) THEN -1
    ELSE (CHOOSE k \in Columns(folders) \ unique_cols(folders) :
              \A j \in Columns(folders) \ unique_cols(folders) : k <= j) - 1

(* parts[start:].                                                          *)
PartsFrom(parts, start) ==
    LET from == IF start >= 0 THEN start
                ELSE IF Len(parts) + start >= 0 THEN Len(parts) + start ELSE 0
    IN SubSeq(parts, from + 1, Len(parts))

(* self.output_dir.                                                        *)
output_dir == <<"o">>

(* pathlib.Path of the segments: the parts, each a sequence of characters; *)
(* an empty segment adds no part.                                          *)
PathOf(segments) == LET Test(p) == p # <<>> IN SelectSeq(segments, Test)

(* full_output_path.                                                       *)
full_output_path(condition, replicate, folder, start) ==
    PathOf(<<output_dir, Sanitize(condition), Sanitize(replicate[1])>>
           \o [k \in 1..Len(PartsFrom(folder, start)) |->
                   <<PartsFrom(folder, start)[k]>>])

(* The cell dictionary of one folder.                                      *)
Cell(condition, replicate, folder, start) ==
    [Condition |-> condition,
     Replicate |-> replicate,
     Label |-> IF start > 0 THEN PartsFrom(folder, start) ELSE <<>>,
     Output |-> full_output_path(condition, replicate, folder, start),
     Folder |-> folder]

(* The orders in which the loop over the set cell_folders can run.         *)
Orders(folders) ==
    {o \in [1..Cardinality(folders) -> folders] :
        \A i, j \in 1..Cardinality(folders) : i # j => o[i] # o[j]}

(* The metadata files of the checked runs: one or two lines.               *)
Conditions == {<<"a", " ", "b">>, <<"a", "_", "b">>, <<"b">>}

ReplicateIds == {<<"1">>, <<"2">>}

MetadataLines ==
    {c \o <<",">> \o r \o <<",">> \o p :
        c \in Conditions, r \in ReplicateIds, p \in Directories \cup {<<"v">>}}
    \cup {<<"#", "a">>, <<"a", ",", "1">>}

MetadataFiles ==
    {<<l>> : l \in MetadataLines}
    \cup {<<l, m>> : l \in MetadataLines, m \in MetadataLines}

RunInit ==
    /\ NoCell
    /\ NoPool
    /\ NoConfig
    /\ NoMeta
    /\ NoAssay
    /\ NoFill
    /\ NoIter
    /\ run_file \in MetadataFiles
    /\ metadata = <<>>
    /\ replicate_no = 0
    /\ no_analysis_directory = TRUE
    /\ dctracker_args = <<>>
    /\ cell_pc = <<>>
    /\ disk = {}
    /\ run_pc = "Metadata"

(* Runner.parse_metadata.                                                  *)
ParseMetadata ==
    /\ run_pc = "Metadata"
    /\ LET parsed == parse_metadata(run_file, <<>>)
       IN /\ metadata' = parsed.metadata
          /\ run_pc' = IF parsed.error # "" THEN parsed.error ELSE "Prepare"
    /\ UNCHANGED <<run_file, replicate_no, no_analysis_directory, dctracker_args,
                   cell_pc, disk>>
    /\ UNCHANGED <<cellVars, poolVars, configVars, metaVars, assayVars, fillVars, iterVars>>

(* One turn of the loop over the replicates of prepare_run.                *)
PrepareReplicate ==
    /\ run_pc = "Prepare"
    /\ replicate_no < Len(Replicates(metadata))
    /\ LET r == Replicates(metadata)[replicate_no + 1]
           replicate_path == r.Replicate[2]
           cell_folders == IF replicate_path \in Directories
                           THEN CellFolders(replicate_path) ELSE {}
           start == label_start(cell_folders)
       IN /\ no_analysis_directory' =
                 (no_analysis_directory /\ replicate_path \notin Directories)
          /\ IF cell_folders = {}
             THEN /\ run_pc' = "HaltException"
                  /\ UNCHANGED <<replicate_no, dctracker_args>>
             ELSE /\ \E o \in Orders(cell_folders) :
                         LET Complete(f) == f \notin Incomplete
                             done == SelectSeq(o, Complete)
                         IN dctracker_args' = dctracker_args \o
                                [k \in 1..Len(done) |->
                                    Cell(r.Condition, r.Replicate, done[k], start)]
                  /\ replicate_no' = replicate_no + 1
                  /\ UNCHANGED run_pc
    /\ UNCHANGED <<run_file, metadata, cell_pc, disk>>
    /\ UNCHANGED <<cellVars, poolVars, configVars, metaVars, assayVars, fillVars, iterVars>>

(* The end of prepare_run, and Pipeline.__init__ handing the cells to the  *)
(* pool.                                                                   *)
PrepareEnd ==
    /\ run_pc = "Prepare"
    /\ replicate_no = Len(Replicates(metadata))
    /\ IF no_analysis_directory \/ dctracker_args = <<>>
       THEN /\ run_pc' = "HaltException"
            /\ UNCHANGED cell_pc
       ELSE /\ run_pc' = "Pipeline"
            /\ cell_pc' = [k \in 1..Len(dctracker_args) |-> "DCTracker"]
    /\ UNCHANGED <<run_file, metadata, replicate_no, no_analysis_directory,
                   dctracker_args, disk>>
    /\ UNCHANGED <<cellVars, poolVars, configVars, metaVars, assayVars, fillVars, iterVars>>

(* The file a cell writes at each position of run_dctracker, and the       *)
(* position after it.                                                      *)
OutputFile(at) ==
    IF at = "DCTracker" THEN <<"DCTracker.csv">>
    ELSE IF at = "Colocalize" THEN <<"Colocalize.csv">>
    ELSE <<"Metadata.json">>

After(at) ==
    IF at = "DCTracker" THEN "Colocalize"
    ELSE IF at = "Colocalize" THEN "WriteJson"
    ELSE "Done"

(* A worker of the pool writes the next file of a cell.  The workers run   *)
(* side by side: the writes of different cells come in any order.          *)
CellWrites ==
    /\ run_pc = "Pipeline"
    /\ \E k \in 1..Len(cell_pc) :
          /\ cell_pc[k] \in {"DCTracker", "Colocalize", "WriteJson"}
          /\ disk' = disk \cup
                 {[path |-> Append(dctracker_args[k].Output, OutputFile(cell_pc[k])),
                   cell |-> k]}
          /\ cell_pc' = [cell_pc EXCEPT ![k] = After(@)]
    /\ UNCHANGED <<run_file, metadata, replicate_no, no_analysis_directory,
                   dctracker_args, run_pc>>
    /\ UNCHANGED <<cellVars, poolVars, configVars, metaVars, assayVars, fillVars, iterVars>>

(* DCTracker raises for a cell before it writes its table.                 *)
CellRaises ==
    /\ run_pc = "Pipeline"
    /\ \E k \in 1..Len(cell_pc) :
          /\ cell_pc[k] = "DCTracker"
          /\ cell_pc' = [cell_pc EXCEPT ![k] = "Raised"]
    /\ UNCHANGED <<run_file, metadata, replicate_no, no_analysis_directory,
                   dctracker_args, disk, run_pc>>
    /\ UNCHANGED <<cellVars, poolVars, configVars, metaVars, assayVars, fillVars, iterVars>>

RunNext ==
    \/ ParseMetadata
    \/ PrepareReplicate
    \/ PrepareEnd
    \/ CellWrites
    \/ CellRaises

RunSpec == RunInit /\ [][RunNext]_vars

----------------------------------------------------------------------------
(* The iterator of Assay (__iter__, __next__) and Experiment.get_cells.    *)
(* Experiment.__iter__ and __next__ are the same statements over _assays.  *)
(* Two loops iterate the first assay of the experiment; a loop is a for    *)
(* statement or any caller of iter() and next().                           *)

Loops == {1, 2}

(* The experiments iterated: the first assay holds the cells 1..n, and a   *)
(* second assay, when there is one, holds one more cell.                   *)
Experiments ==
    {<<[k \in 1..n |-> k]>> : n \in 0..MaxItems}
    \cup {<<[k \in 1..n |-> k], <<n + 1>>>> : n \in 0..MaxItems}

RECURSIVE AllCells(_)
AllCells(as) == IF as = <<>> THEN <<>> ELSE Head(as) \o AllCells(Tail(as))

IterInit ==
    /\ NoCell
    /\ NoPool
    /\ NoConfig
    /\ NoMeta
    /\ NoAssay
    /\ NoFill
    /\ NoRun
    /\ it_cells \in Experiments
    /\ it_index = [a \in 1..Len(it_cells) |-> 0]
    /\ it_pc = [c \in Loops |-> "Idle"]
    /\ yielded = [c \in Loops |-> <<>>]
    /\ iter_calls = [c \in Loops |-> 0]
    /\ got = <<>>

(* __iter__: self._index = 0.                                              *)
ResetIndex(index) == 0

(* A loop calls iter() on the first assay.                                 *)
IterCall ==
    /\ \E c \in Loops :
          /\ iter_calls[c] < MaxIter
          /\ iter_calls' = [iter_calls EXCEPT ![c] = @ + 1]
          /\ it_index' = [it_index EXCEPT ![1] = ResetIndex(@)]
          /\ it_pc' = [it_pc EXCEPT ![c] = "Iterating"]
          /\ yielded' = [yielded EXCEPT ![c] = <<>>]
    /\ UNCHANGED <<it_cells, got>>
    /\ UNCHANGED <<cellVars, poolVars, configVars, metaVars, assayVars, fillVars, runVars>>

(* A loop calls next() on the first assay: the cell at the index, or       *)
(* StopIteration.                                                          *)
NextCall ==
    /\ \E c \in Loops :
          /\ it_pc[c] = "Iterating"
          /\ IF it_index[1] < Len(it_cells[1])
             THEN /\ yielded' = [yielded EXCEPT
                                    ![c] = Append(@, it_cells[1][it_index[1] + 1])]
                  /\ it_index' = [it_index EXCEPT ![1] = @ + 1]
                  /\ UNCHANGED it_pc
             ELSE /\ it_pc' = [it_pc EXCEPT ![c] = "Stopped"]
                  /\ UNCHANGED <<yielded, it_index>>
    /\ UNCHANGED <<it_cells, iter_calls, got>>
    /\ UNCHANGED <<cellVars, poolVars, configVars, metaVars, assayVars, fillVars, runVars>>

(* Experiment.get_cells: a for loop over every assay, which leaves the     *)
(* index of each at its end.                                               *)
GetCells ==
    /\ got' = AllCells(it_cells)
    /\ it_index' = [a \in 1..Len(it_cells) |-> Len(it_cells[a])]
    /\ UNCHANGED <<it_cells, it_pc, yielded, iter_calls>>
    /\ UNCHANGED <<cellVars, poolVars, configVars, metaVars, assayVars, fillVars, runVars>>

IterNext ==
    \/ IterCall
    \/ NextCall
    \/ GetCells

IterSpec == IterInit /\ [][IterNext]_vars

----------------------------------------------------------------------------
(* Properties of the run detector (Colocalize).                            *)

(* The interval list has been emitted.                                     *)
RunsEmitted == pc \in {"RunsDetected", "Done"}

Intervals == Range(interactions)

(* The frames at which id tuple k occurs in the correspondence table.      *)
FramesOf(k) == {r.FRAME : r \in {s \in Range(df) : s.ids = k}}

HasNull(k) == \E c \in 1..Len(k) : k[c] = NaN

(* C1: every emitted interval has start_frame <= end_frame, and at every   *)
(* frame from start_frame to end_frame the correspondence table holds a    *)
(* row with exactly the interval's id tuple (NaN matching NaN only).       *)
C1_IntervalFramesInTable ==
    RunsEmitted =>
        \A iv \in Intervals :
            /\ iv.start_frame <= iv.end_frame
            /\ \A f \in iv.start_frame..iv.end_frame :
                   \E j \in 1..Len(df) : df[j].FRAME = f /\ df[j].ids = iv.ids

C1_Witness ==
    /\ pc = "Done"
    /\ \E iv \in Intervals : iv.start_frame < iv.end_frame /\ HasNull(iv.ids)

(* C2: two intervals of the same id tuple are separated by a gap           *)
(* (e1 + 1 < s2 when s1 <= s2), and the start frames of a tuple are        *)
(* exactly the frames of the tuple that have no frame of the tuple right   *)
(* before them: the first one and those more than 1 after the previous one.*)
C2_RunsMaximal ==
    RunsEmitted =>
        /\ \A i, j \in 1..Len(interactions) :
               (/\ i # j
                /\ interactions[i].ids = interactions[j].ids
                /\ interactions[i].start_frame <= interactions[j].start_frame)
               => interactions[i].end_frame + 1 < interactions[j].start_frame
        /\ \A k \in {r.ids : r \in Range(df)} :
               {iv.start_frame : iv \in {v \in Intervals : v.ids = k}}
               = {f \in FramesOf(k) :
                     \A g \in FramesOf(k) :
                        g < f => \E h \in FramesOf(k) : g <= h /\ h < f /\ f - h > 1}

C2_Witness ==
    /\ pc = "Done"
    /\ \E i, j \in 1..Len(interactions) :
           /\ i # j
           /\ interactions[i].ids = interactions[j].ids
    /\ \E iv \in Intervals : iv.start_frame < iv.end_frame

RECURSIVE SumLengths(_, _)
SumLengths(ivs, k) ==
    IF ivs = <<>> THEN 0
    ELSE (IF Head(ivs).ids = k
          THEN Head(ivs).end_frame - Head(ivs).start_frame + 1 ELSE 0)
         + SumLengths(Tail(ivs), k)

(* C3: for every id tuple, with or without NaN, the lengths                *)
(* end_frame - start_frame + 1 of its intervals add up to the number of    *)
(* distinct frames at which the tuple occurs in the correspondence table.  *)
C3_LengthsAddUp ==
    RunsEmitted =>
        \A k \in {r.ids : r \in Range(df)} \cup {iv.ids : iv \in Intervals} :
            SumLengths(interactions, k) = Cardinality(FramesOf(k))

C3_Witness ==
    /\ pc = "Done"
    /\ \E k \in {r.ids : r \in Range(df)} :
           /\ HasNull(k)
           /\ Cardinality(FramesOf(k)) >= 2
           /\ Cardinality({iv \in Intervals : iv.ids = k}) >= 2

----------------------------------------------------------------------------
(* Properties of the channel merger (DCTracker.main).                      *)

(* The partial-match filter has run: DCTracker.csv is written (the         *)
(* pipeline may have failed after it, in Colocalize).                      *)
FilterDone ==
    \/ pc \in {"Written", "RunsDetected", "Done"}
    \/ pc = "Failed" /\ error = "ValueError" /\ merged # <<>>

CRow(f, k) == [FRAME |-> f, ids |-> k]

(* C4: of the deduplicated merged table, the final table keeps every row   *)
(* without NaN, and a row with a NaN exactly when one of its ids occurs in *)
(* no other row of its frame in the same column, the other rows being      *)
(* those of the merged table before any row is dropped; nothing else is in *)
(* the final table.                                                        *)
C4_PartialMatchRule ==
    FilterDone =>
        /\ \A i, j \in 1..Len(merged) : i # j => merged[i] # merged[j]
        /\ Range(df) \subseteq Range(merged)
        /\ \A r \in Range(merged) :
               r \in Range(df) <=>
                  \/ ~HasNull(r.ids)
                  \/ \E c \in 1..Len(r.ids) :
                        /\ r.ids[c] # NaN
                        /\ \A s \in Range(merged) :
                               (s # r /\ s.FRAME = r.FRAME) => s.ids[c] # r.ids[c]

C4_Witness ==
    /\ FilterDone
    /\ \E r \in Range(df) : HasNull(r.ids)
    /\ \E r \in Range(merged) : HasNull(r.ids) /\ r \notin Range(df)
    /\ \E r \in Range(df) : ~HasNull(r.ids)

(* C5: every id of a dropped row occurs, in the same column and at the     *)
(* same frame, in a row that is retained.                                  *)
C5_DroppedRowsRedundant ==
    FilterDone =>
        \A r \in Range(merged) :
            r \notin Range(df) =>
                \A c \in 1..Len(r.ids) :
                    r.ids[c] # NaN =>
                        \E s \in Range(df) :
                            s.FRAME = r.FRAME /\ s.ids[c] = r.ids[c]

(* Particle a of the first channel and particle b of the second share a    *)
(* footprint pixel at frame f.                                             *)
Overlap(a, b, f) ==
    \E r \in tables[1] :
        /\ r.TRACK_ID = a
        /\ r.FRAME = f
        /\ Row(r.X, r.Y, b, f) \in tables[2]

TableIds(i) == {r.TRACK_ID : r \in tables[i]}

TableFrames(i) == {r.FRAME : r \in tables[i]}

(* C6: with two channels, particles a and b that share a pixel at frame f  *)
(* give the row (f, a, b) and no row with a NaN for a or for b at f; a     *)
(* particle in a row with a NaN at f shares no pixel with a particle of    *)
(* the other channel at f; and two particles, alone in their channels,     *)
(* that overlap at every frame 0..k give the rows (f, a, b), f = 0..k, and *)
(* the one interval (a, b, 0, k).                                          *)
C6_TwoChannelOverlap ==
    (FilterDone /\ Len(particles) = 2) =>
        /\ \A a \in TableIds(1), b \in TableIds(2), f \in TableFrames(1) :
               Overlap(a, b, f) =>
                   /\ CRow(f, <<a, b>>) \in Range(df)
                   /\ CRow(f, <<a, NaN>>) \notin Range(df)
                   /\ CRow(f, <<NaN, b>>) \notin Range(df)
        /\ \A r \in Range(df) :
               /\ (r.ids[2] = NaN) =>
                      \A b \in TableIds(2) : ~Overlap(r.ids[1], b, r.FRAME)
               /\ (r.ids[1] = NaN) =>
                      \A a \in TableIds(1) : ~Overlap(a, r.ids[2], r.FRAME)
        /\ \A a \in TableIds(1), b \in TableIds(2), k \in TableFrames(1) :
               (/\ TableIds(1) = {a}
                /\ TableIds(2) = {b}
                /\ TableFrames(1) = 0..k
                /\ TableFrames(2) = 0..k
                /\ \A f \in 0..k : Overlap(a, b, f))
               => /\ df = [n \in 1..(k + 1) |-> CRow(n - 1, <<a, b>>)]
                  /\ RunsEmitted =>
                        interactions =
                            <<[ids |-> <<a, b>>, start_frame |-> 0, end_frame |-> k]>>

C6_Witness ==
    /\ pc = "Done"
    /\ Len(particles) = 2
    /\ \E a \in TableIds(1), b \in TableIds(2) :
           /\ \E iv \in Intervals :
                  iv = [ids |-> <<a, b>>, start_frame |-> 0, end_frame |-> 1]
           /\ Len(interactions) = 1
           /\ CRow(0, <<a, NaN>>) \in Range(merged)

----------------------------------------------------------------------------
(* Properties of the footprint tables of the mask strategy.                *)

(* The table of channel i has been built.                                  *)
Built(i) == i \in 1..Len(tables)

MaskChannels == {i \in 1..Len(particles) : particles[i].MaskFile}

Points(i) == Range(particles[i].TrackFile)

(* One frame of the mask of channel i (all have the same shape).           *)
AnyFrame(i) == IF particles[i].Static THEN particles[i].Mask ELSE particles[i].Mask[1]

(* The pixel of track point p lies in the mask of channel i.               *)
PixelInMask(i, p) ==
    /\ 0 <= track_x(p) /\ track_x(p) < Len(AnyFrame(i)[1])
    /\ 0 <= track_y(p) /\ track_y(p) < Len(AnyFrame(i))

(* The frame of track point p is a frame of the mask of channel i.         *)
FrameInMask(i, p) == particles[i].Static \/ p.FRAME < Len(particles[i].Mask)

(* Track point p lies in the mask of channel i, on a zero pixel.           *)
OnBackground(i, p) ==
    /\ PixelInMask(i, p)
    /\ FrameInMask(i, p)
    /\ FrameOf(particles[i].Mask, particles[i].Static, p.FRAME)
           [track_y(p) + 1][track_x(p) + 1] = 0

(* C7: a track point of a mask channel whose pixel lies outside the mask   *)
(* makes the footprint construction fail: no table is built for a channel  *)
(* that has such a point.                                                  *)
C7_OutsideCentroidFails ==
    \A i \in MaskChannels :
        Built(i) => \A p \in Points(i) : PixelInMask(i, p)

WithoutRow(tracks, j) ==
    [n \in 1..(Len(tracks) - 1) |-> IF n < j THEN tracks[n] ELSE tracks[n + 1]]

FrameZeroFile(i) ==
    LET Test(p) == p.FRAME = 0
    IN SelectSeq(particles[i].TrackFile, Test)

(* The (x, y, id) of the table the frame-0 track points of channel i give. *)
FrameZeroSet(i, stable) ==
    {<<r.X, r.Y, r.TRACK_ID>> :
        r \in mask_to_table(FrameZeroFile(i), particles[i].Mask, TRUE, stable).table}

(* C9: the table of a static mask channel that enters the merge holds, at  *)
(* every frame 0..frame_count-1, exactly the (x, y, id) that the track     *)
(* points with frame 0 give, and no row at another frame.                  *)
C9_StaticReplicated ==
    \A i \in MaskChannels :
        (Built(i) /\ particles[i].Static) =>
            /\ \E stable \in BOOLEAN :
                   \A f \in 0..(frame_count - 1) :
                      {<<r.X, r.Y, r.TRACK_ID>> : r \in {s \in tables[i] : s.FRAME = f}}
                      = FrameZeroSet(i, stable)
            /\ \A r \in tables[i] : r.FRAME \in 0..(frame_count - 1)

C9_Witness ==
    \E i \in MaskChannels :
        /\ Built(i)
        /\ particles[i].Static
        /\ frame_count >= 2
        /\ tables[i] # {}
        /\ \E p \in Points(i) : p.FRAME > 0 /\ PixelInMask(i, p) /\ ~OnBackground(i, p)

(* The frames of the track points of the non-static channels.              *)
MovieFrames ==
    UNION {{p.FRAME : p \in Points(i)} :
              i \in {n \in 1..Len(particles) : ~particles[n].Static}}

(* C10: once the frames are counted, frame_count is one plus the largest   *)
(* frame of the track points of the non-static channels, and 1 when every  *)
(* channel is static; counting never stops the pipeline.                   *)
C10_FrameCount ==
    pc # "Loaded" =>
        /\ error # "UnboundLocalError"
        /\ frame_count = IF MovieFrames = {} THEN 1 ELSE Max(MovieFrames) + 1

----------------------------------------------------------------------------
(* Properties of the footprint tables of the disk strategy.                *)

DiskChannels == {i \in 1..Len(particles) : ~particles[i].MaskFile}

(* n is a nearest integer of q4/4 (either neighbour when q4/4 is a half).  *)
Nearest(q4, n) == 4 * n - q4 \in -2..2

(* The nearest integers of q4/4: one, or two when q4/4 is a half.          *)
Near(q4) == {n \in {q4 \div 4, q4 \div 4 + 1} : Nearest(q4, n)}

(* The rows of the table of channel i with the id and frame of point p.    *)
RowsOf(i, p) == {r \in tables[i] : r.TRACK_ID = p.TRACK_ID /\ r.FRAME = p.FRAME}

(* The square of side 2*r+1 around pixel (px, py), for track point p.      *)
Square(p, px, py, r) ==
    {Row(px + dx, py + dy, p.TRACK_ID, p.FRAME) : dx \in -r..r, dy \in -r..r}

(* C11: the table of a channel with a radius holds, for every track point  *)
(* (id, frame, px, py), exactly the (2*r_px+1)^2 rows (px+dx, py+dy, id,   *)
(* frame), dx and dy in -r_px..r_px, corners, negative coordinates and the *)
(* pixels shared with another particle of the channel included, and no     *)
(* other row; px, py and r_px are nearest integers of the quotients and    *)
(* r_px is the same for every point of the channel.                        *)
C11_DiskFootprint ==
    \A i \in DiskChannels :
        Built(i) =>
            /\ \E r \in Near(particles[i].Radius) :
                   /\ \A p \in Points(i) :
                          /\ \E px \in Near(p.POSITION_X), py \in Near(p.POSITION_Y) :
                                 RowsOf(i, p) = Square(p, px, py, r)
                          /\ Cardinality(RowsOf(i, p)) = (2 * r + 1) * (2 * r + 1)
            /\ tables[i] = UNION {RowsOf(i, p) : p \in Points(i)}

C11_Witness ==
    \E i \in DiskChannels :
        /\ Built(i)
        /\ particles[i].Radius = 4
        /\ \E r \in tables[i] : r.X < 0 /\ r.Y < 0
        /\ \E r, q \in tables[i] :
               r.TRACK_ID # q.TRACK_ID /\ SameKey(r, q)

(* The nearest integer of q4/4, a half going to the even neighbour.        *)
HalfEven(q4) ==
    CHOOSE n \in Near(q4) : (4 * n - q4 \in {-2, 2}) => n % 2 = 0

(* The nearest integer of q4/4, a half going away from zero.               *)
HalfAway(q4) ==
    CHOOSE n \in Near(q4) :
        (4 * n - q4 \in {-2, 2}) => (IF q4 < 0 THEN 4 * n < q4 ELSE 4 * n > q4)

----------------------------------------------------------------------------
(* Properties of the overlap filter of the mask strategy.                  *)

(* The rows the flood fills of channel i claim, before the overlap filter  *)
(* (for a static channel, those of frame 0, which make_static keeps).      *)
Claims(i) ==
    {r \in MaskRows(particles[i].TrackFile, particles[i].Mask, particles[i].Static) :
        particles[i].Static => r.FRAME = 0}

(* Claim r is closer to its centroid than claim s, or as close with a      *)
(* lower particle id.                                                      *)
CloserOrLowerId(i, r, s) ==
    \/ Distance2(particles[i].TrackFile, r) < Distance2(particles[i].TrackFile, s)
    \/ /\ Distance2(particles[i].TrackFile, r) = Distance2(particles[i].TrackFile, s)
       /\ r.TRACK_ID <= s.TRACK_ID

(* C13: of the claims on one pixel of one frame, the table of a mask       *)
(* channel keeps exactly the one whose centroid is the closest and, among  *)
(* the closest, the one of the lowest particle id.                         *)
C13_ClosestThenLowestId ==
    \A i \in MaskChannels :
        Built(i) =>
            \A r \in Claims(i) :
                (\A s \in Claims(i) : SameKey(r, s) => CloserOrLowerId(i, r, s))
                <=> r \in tables[i]

(* The correspondence table the cell gives when every sort of the overlap  *)
(* filter keeps the rows of equal distance in the order of the file.       *)
StableTables ==
    [i \in 1..Len(particles) |-> ChannelTable(particles[i], frame_count, TRUE).table]

StableDf ==
    PartialMatchFilter(
        SortRows(DropDuplicates(MergeTables(StableTables, Len(particles)))))

----------------------------------------------------------------------------
(* Properties of the order of the interval table.                          *)

(* Id a sorts before id b: integers ascending, a null after every integer. *)
IdBefore(a, b) == a # NaN /\ (b = NaN \/ a < b)

(* Tuple s sorts before tuple t, column by column in channel order.        *)
TupleBefore(s, t) ==
    \E c \in 1..Len(s) :
        /\ IdBefore(s[c], t[c])
        /\ \A d \in 1..(c - 1) : s[d] = t[d]

(* C15: of two intervals of the interval table, the one emitted first has  *)
(* the id tuple that sorts first (a null after every integer) or, the      *)
(* tuples being equal, the smaller start_frame.                            *)
C15_IntervalsSorted ==
    RunsEmitted =>
        \A i, j \in 1..Len(interactions) :
            i < j =>
                \/ TupleBefore(interactions[i].ids, interactions[j].ids)
                \/ /\ interactions[i].ids = interactions[j].ids
                   /\ interactions[i].start_frame < interactions[j].start_frame

C15_Witness ==
    /\ pc = "Done"
    /\ \E i, j, k \in 1..Len(interactions) :
           /\ i < j /\ j < k
           /\ interactions[i].ids[1] # NaN
           /\ interactions[j].ids = interactions[k].ids
           /\ interactions[j].ids[1] = NaN

----------------------------------------------------------------------------
(* Properties of the outcomes of the pipeline of one cell.                 *)

(* C17: a cell fails only with InvalidCentroidError or MalformedTrackFile, *)
(* and only while its footprint tables are built: nothing is merged when   *)
(* it fails, and the merge, the partial-match filter and the run detection *)
(* never fail.                                                             *)
C17_OnlyFootprintFailures ==
    pc = "Failed" =>
        /\ error \in {"InvalidCentroidError", "MalformedTrackFile"}
        /\ frame_count > 0
        /\ Len(tables) < Len(particles)
        /\ merged = <<>>

----------------------------------------------------------------------------
(* Properties of the run of Pipeline over several cells.                   *)

(* pool.map has ended.                                                     *)
MapEnded == pool_pc \in {"Returned", "Raised"}

(* C16: when pool.map has ended, a cell whose pipeline raised              *)
(* InvalidCentroidError has been logged as a warning in its own run, every *)
(* other cell has been run to its own outcome, Done for a cell that raises *)
(* nothing, and Pipeline goes on.                                          *)
C16_FailureIsolated ==
    (MapEnded /\ \A c \in 1..Len(params) : params[c] \in {"", "InvalidCentroidError"}) =>
        /\ pool_pc = "Returned"
        /\ \A c \in 1..Len(params) :
               /\ params[c] = "InvalidCentroidError" => outcome[c] = "Warned"
               /\ params[c] = "" => outcome[c] = "Done"

----------------------------------------------------------------------------
(* Properties of the configuration validation.                             *)

ConfigAccepted == config_pc \in {"Accepted", "Selected"}

RadiusSet(section) == section.Radius # None

MaskSet(section) == section.MaskFile # None

----------------------------------------------------------------------------
(* Properties of the metadata parser.                                      *)

(* The lines of the file that do not start with '#', in file order.        *)
DataLines ==
    SelectSeq([i \in 1..Len(meta_file.lines) |-> i],
              LAMBDA i : ~StartsWithHash(meta_file.lines[i]))

(* The comma-separated fields of line i.                                   *)
Fields(i) == Split(Strip(meta_file.lines[i]))

(* The '#' lines before line i.                                            *)
HashLinesBefore(i) == {j \in 1..(i - 1) : StartsWithHash(meta_file.lines[j])}

(* The names of the first '#' line before line i.                          *)
HeaderBefore(i) == Split(Strip(Tail(meta_file.lines[Min(HashLinesBefore(i))])))

(* What C19 says of lines without a header: the path, no qualifiers for a  *)
(* one-field line, the description otherwise.                              *)
PlainLineParsed(a, i) ==
    /\ a.path = Path(Fields(i)[Len(Fields(i))])
    /\ Len(Fields(i)) = 1 => DOMAIN a.qualifiers = {}
    /\ (Len(Fields(i)) > 1 /\ HashLinesBefore(i) = {}) =>
           /\ DOMAIN a.qualifiers = {<<"description">>}
           /\ a.qualifiers[<<"description">>]
                  = Join(SubSeq(Fields(i), 1, Len(Fields(i)) - 1))

(* Each name of the header is a qualifier whose value is the field at the  *)
(* position of the name.                                                   *)
HeaderMapsEveryName(q, h, l) ==
    /\ DOMAIN q = {h[p] : p \in 1..Len(h)}
    /\ \A p \in 1..Len(h) : p <= Len(l) /\ q[h[p]] = l[p]

(* The names at positions that the line has are the qualifiers; the value  *)
(* is the field at the last position of the name.                          *)
HeaderMapsSharedPositions(q, h, l) ==
    LET n == Min({Len(h), Len(l)})
    IN /\ DOMAIN q = {h[p] : p \in 1..n}
       /\ \A p \in 1..n :
              (\A later \in (p + 1)..n : h[later] # h[p]) => q[h[p]] = l[p]

MissingFileRaises ==
    (meta_pc # "Closed" /\ ~meta_file.is_file)
        => meta_pc = "RuntimeError: Metadata file not found."

(* C19 as stated: one assay per line that does not start with '#', in file *)
(* order, with the last field as path; no qualifiers for one field, the    *)
(* description without a header, and after the first '#' line every header *)
(* name mapped to the field at its position; a missing file raises         *)
(* RuntimeError 'Metadata file not found.'.                                *)
C19_MetadataParsed ==
    /\ MissingFileRaises
    /\ meta_pc = "Returned" =>
           /\ Len(experiment) = Len(DataLines)
           /\ \A k \in 1..Len(DataLines) :
                  LET i == DataLines[k]
                  IN /\ PlainLineParsed(experiment[k], i)
                     /\ (Len(Fields(i)) > 1 /\ HashLinesBefore(i) # {}) =>
                            HeaderMapsEveryName(experiment[k].qualifiers,
                                                HeaderBefore(i), Fields(i))

(* C19, amended: as stated, except that after the first '#' line the       *)
(* qualifiers pair names and fields only up to the shorter of the header   *)
(* and the line, a repeated name keeping the field of its last position;   *)
(* and Metadata raises RuntimeError 'Metadata file is empty.' for a file   *)
(* without a data line.                                                    *)
C19_MetadataParsedUpToShorter ==
    /\ MissingFileRaises
    /\ meta_pc = "Returned" =>
           /\ Len(experiment) = Len(DataLines)
           /\ \A k \in 1..Len(DataLines) :
                  LET i == DataLines[k]
                  IN /\ PlainLineParsed(experiment[k], i)
                     /\ (Len(Fields(i)) > 1 /\ HashLinesBefore(i) # {}) =>
                            HeaderMapsSharedPositions(experiment[k].qualifiers,
                                                      HeaderBefore(i), Fields(i))
    /\ (meta_pc \notin {"Closed", "Reading"} /\ meta_file.is_file) =>
           (meta_pc = "RuntimeError: Metadata file is empty."
               <=> (parser = "Metadata" /\ Len(DataLines) = 0))

C19_Witness ==
    /\ meta_pc = "Returned"
    /\ Len(meta_file.lines) = 3
    /\ StartsWithHash(meta_file.lines[1])
    /\ StartsWithHash(meta_file.lines[2])
    /\ meta_file.lines[1] # meta_file.lines[2]
    /\ Len(Fields(3)) = 3
    /\ Len(HeaderBefore(3)) = 2
    /\ Len(experiment) = 1
    /\ DOMAIN experiment[1].qualifiers = {<<"a">>, <<"b">>}

----------------------------------------------------------------------------
(* Properties of the assay discovery.                                      *)

AssayBuilt == assay_pc = "Cells" /\ cell_dirs = <<>>

(* The folders under the assay path, the assay folder included, relative   *)
(* to it.                                                                  *)
Folders == {SubSeq(f, 1, n) : <<f, n>> \in {fn \in files \X (0..2) : fn[2] < Len(fn[1])}}

(* The folder holds every configured track file and every configured mask  *)
(* file.                                                                   *)
HasEveryFile(d) ==
    \A c \in 1..Len(channels) :
        /\ (d \o channels[c].track_file) \in files
        /\ channels[c].mask_file # <<>> => (d \o channels[c].mask_file) \in files

HasOneTrackFile(d) ==
    \E c \in 1..Len(channels) : (d \o channels[c].track_file) \in files

(* The path of a cell, relative to the assay path.                         *)
Relative(path) == SubSeq(path, Len(assay_path) + 1, Len(path))

(* C20: the cells of a built assay are exactly the folders under the assay *)
(* path that hold every configured track and mask file, in ascending order *)
(* of their relative path; a folder that holds one track file but lacks a  *)
(* configured file is left out with a warning; when no folder qualifies    *)
(* the assay is empty and a warning is logged.                             *)
C20_CellsDiscovered ==
    AssayBuilt =>
        /\ {cells[k].path : k \in 1..Len(cells)}
               = {assay_path \o d : d \in {f \in Folders : HasEveryFile(f)}}
        /\ \A j, k \in 1..Len(cells) :
               j < k => PathLess(Relative(cells[j].path), Relative(cells[k].path))
        /\ \A d \in Folders :
               (HasOneTrackFile(d) /\ ~HasEveryFile(d)) =>
                   /\ \A k \in 1..Len(cells) : cells[k].path # assay_path \o d
                   /\ \E w \in 1..Len(log) :
                          /\ log[w].warning = "does not contain the file"
                          /\ log[w].folder = assay_path \o d
        /\ (\A d \in Folders : ~HasEveryFile(d)) =>
               /\ cells = <<>>
               /\ log # <<>>

C20_Witness ==
    /\ AssayBuilt
    /\ Len(cells) >= 2
    /\ \E w \in 1..Len(log) :
           /\ log[w].warning = "does not contain the file"
           /\ \E d \in Folders : HasOneTrackFile(d) /\ log[w].folder = assay_path \o d
           /\ PathLess(Relative(log[w].folder), Relative(cells[Len(cells)].path))

----------------------------------------------------------------------------
(* Properties of the flood fill.                                           *)

FillEnded == fill_pc = "Done"

(* The pixel is on the frame.                                              *)
OnFrame(n) ==
    /\ 0 <= n[1] /\ n[1] < Len(fill_frame[1])
    /\ 0 <= n[2] /\ n[2] < Len(fill_frame)

(* The pixel is on the frame and its mask value is nonzero.                *)
Nonzero(n) == OnFrame(n) /\ fill_frame[n[2] + 1][n[1] + 1] # 0

FourSteps == {<<-1, 0>>, <<0, -1>>, <<0, 1>>, <<1, 0>>}

DiagonalSteps == {<<-1, -1>>, <<-1, 1>>, <<1, -1>>, <<1, 1>>}

Step(n, d) == <<n[1] + d[1], n[2] + d[2]>>

(* The pixels reached from the pixels of S by steps of the four offsets    *)
(* through nonzero pixels of the frame.                                    *)
RECURSIVE Reached(_)
Reached(S) ==
    LET T == S \cup {n \in {Step(q, d) : q \in S, d \in FourSteps} : Nonzero(n)}
    IN IF T = S THEN S ELSE Reached(T)

Region == Reached({fill_seed})

(* The nonzero pixels that touch the region only diagonally.               *)
OnlyDiagonal ==
    {n \in {Step(q, d) : q \in Region, d \in DiagonalSteps} :
        Nonzero(n) /\ n \notin Region}

(* C21: when the fill of a centroid on a nonzero pixel ends, completed     *)
(* holds the seed and every pixel reached from it by the four offsets      *)
(* through nonzero pixels, it is the set every order of pops gives, and no *)
(* nonzero pixel that touches the region only diagonally is in it.         *)
C21_FillIsFourConnectedRegion ==
    (FillEnded /\ Nonzero(fill_seed)) =>
        /\ fill_seed \in completed
        /\ Region \subseteq completed
        /\ completed = FloodFill(fill_frame, {fill_seed}, {})
        /\ \A n \in OnlyDiagonal : n \notin completed

(* C22: every pixel of completed is on the frame and nonzero there (the    *)
(* rows of the table are the pixels of completed).                         *)
C22_RowsOnFrame ==
    FillEnded => \A n \in completed : Nonzero(n)

(* C23: the flood fill terminates: a pixel of completed is never in the    *)
(* frontier again, no pixel is popped twice, and a fill that has started   *)
(* ends with an empty frontier.                                            *)
C23_FillTerminates ==
    /\ [](/\ visited \cap completed = {}
          /\ \A n \in DOMAIN popped : popped[n] <= 1)
    /\ (fill_pc = "Fill") ~> (fill_pc = "Done" /\ visited = {})

C23_Witness ==
    /\ FillEnded
    /\ Cardinality(completed) >= 4
    /\ DOMAIN popped = completed

----------------------------------------------------------------------------
(* Properties of the merge.                                                *)

(* Every table is built: the loop over the tables that merges them can run.*)
TablesBuilt == pc \notin {"", "Loaded", "Failed"} /\ Len(tables) = Len(particles)

(* df after the loop of pd.merge, before X and Y are dropped.              *)
Joined == MergeTables(tables, Len(tables))

KeyOf(r) == <<r.X, r.Y, r.FRAME>>

(* The ids channel i claims at the key.                                    *)
IdsAt(i, key) == {r.TRACK_ID : r \in {q \in tables[i] : KeyOf(q) = key}}

AllKeys == UNION {{KeyOf(r) : r \in tables[i]} : i \in 1..Len(tables)}

(* C24 as stated: the joined table has exactly one row for each (x, y,     *)
(* frame) of some channel and no other; an id is null exactly when the     *)
(* channel has no row there, and is the channel's id there otherwise.      *)
C24_OneRowPerPixelFrame ==
    (TablesBuilt /\ pc # "Counted") =>
        /\ {KeyOf(r) : r \in Joined} = AllKeys
        /\ \A r, q \in Joined : KeyOf(r) = KeyOf(q) => r = q
        /\ \A r \in Joined : \A i \in 1..Len(tables) :
               IF IdsAt(i, KeyOf(r)) = {} THEN r.ids[i] = NaN
               ELSE IdsAt(i, KeyOf(r)) = {r.ids[i]}

(* C24, amended: the joined table has rows for exactly the (x, y, frame)   *)
(* of the channels; at each of them it has one row for every combination   *)
(* of one id per channel that has rows there, null for the channels that   *)
(* have none: exactly one row where no channel has two particles.          *)
C24_OneRowPerCombination ==
    (TablesBuilt /\ pc # "Counted") =>
        /\ {KeyOf(r) : r \in Joined} = AllKeys
        /\ \A key \in AllKeys :
               {r.ids : r \in {q \in Joined : KeyOf(q) = key}}
                 = {ids \in [1..Len(tables) -> UNION {IdsAt(i, key) : i \in 1..Len(tables)}
                                                 \cup {NaN}] :
                       \A i \in 1..Len(tables) :
                           IF IdsAt(i, key) = {} THEN ids[i] = NaN
                           ELSE ids[i] \in IdsAt(i, key)}

C24_Witness ==
    /\ TablesBuilt /\ pc = "Merged"
    /\ \E r, q \in Joined : KeyOf(r) = KeyOf(q) /\ r # q
    /\ \E r \in Joined : \E i, j \in 1..Len(tables) : r.ids[i] = NaN /\ r.ids[j] # NaN

(* The final table is written.                                             *)
TableWritten == pc \in {"Written", "RunsDetected", "Done"}

(* (x, y) is a pixel where, at the frame of the row, every channel with a  *)
(* non-null id has the footprint row of that id and every channel with a   *)
(* null id has no footprint row.                                           *)
WitnessPixel(r, x, y) ==
    \A i \in 1..Len(tables) :
        IF r.ids[i] = NaN
        THEN \A q \in tables[i] : KeyOf(q) # <<x, y, r.FRAME>>
        ELSE Row(x, y, r.ids[i], r.FRAME) \in tables[i]

(* C25: every row of the final table has a witness pixel, no row is        *)
(* all-null, and no two rows agree in frame and every id.                  *)
C25_RowsHaveWitnessPixel ==
    TableWritten =>
        /\ \A n \in 1..Len(df) :
               /\ \E key \in AllKeys : WitnessPixel(df[n], key[1], key[2])
               /\ \E i \in 1..Len(tables) : df[n].ids[i] # NaN
        /\ \A m, n \in 1..Len(df) : m # n => df[m] # df[n]

C25_Witness ==
    /\ TableWritten
    /\ \E m, n \in 1..Len(df) :
           /\ HasNull(df[m].ids)
           /\ ~HasNull(df[n].ids)
           /\ df[m].FRAME = df[n].FRAME

----------------------------------------------------------------------------
(* Properties of the order of the stages.                                  *)

(* C26: the stages of a cell run in order, each after the one before has   *)
(* ended without an exception: DCTracker.csv is written before the run     *)
(* detection, Metadata.json after both, and a cell that fails while its    *)
(* footprints are built writes none of the three files.                    *)
C26_StagesInOrder ==
    /\ pc \in {"Loaded", "Counted", "Merged"} => written = <<>>
    /\ pc = "Written" => written = <<"DCTracker.csv">> /\ interactions = <<>>
    /\ pc = "RunsDetected" => written = <<"DCTracker.csv", "Colocalize.csv">>
    /\ pc = "Done" => written = <<"DCTracker.csv", "Colocalize.csv", "Metadata.json">>
    /\ pc # "Failed" => error = ""
    /\ (pc = "Failed" /\ error = "InvalidCentroidError") => written = <<>>
    /\ pc = "Failed" => "Metadata.json" \notin Range(written)

C26_Witness ==
    /\ pc = "Failed"
    /\ error = "InvalidCentroidError"
    /\ Len(tables) >= 1
    /\ written = <<>>

----------------------------------------------------------------------------
(* Properties of the overlap filter.                                       *)

(* The rows the track points of mask channel i claim before the filter.    *)
Claimed(i) ==
    MaskRows(particles[i].TrackFile, particles[i].Mask, particles[i].Static)

(* The filter neither deletes nor adds a pixel, takes its rows from the    *)
(* claims and leaves one id per pixel.                                     *)
Resolved(t, rows) ==
    /\ {KeyOf(r) : r \in t} = {KeyOf(r) : r \in rows}
    /\ t \subseteq rows
    /\ \A r, q \in t : KeyOf(r) = KeyOf(q) => r.TRACK_ID = q.TRACK_ID

(* C27: the table of a mask channel is made from a resolved table that has *)
(* at most one particle id for each (x, y, frame) and the same (x, y,      *)
(* frame) as the claims before the resolution.                             *)
C27_ResolutionKeepsPixels ==
    \A i \in 1..Len(tables) :
        particles[i].MaskFile =>
            \E stable \in BOOLEAN :
                LET t == FilterOverlap(particles[i].TrackFile, Claimed(i), stable)
                IN /\ tables[i] = IF particles[i].Static
                                  THEN expand_static_table(make_static(t), frame_count)
                                  ELSE t
                   /\ Resolved(t, Claimed(i))

C27_Witness ==
    \E i \in 1..Len(tables) :
        /\ particles[i].MaskFile
        /\ \E r, q \in Claimed(i) : KeyOf(r) = KeyOf(q) /\ r.TRACK_ID # q.TRACK_ID
        /\ \E r \in tables[i] : \E q \in Claimed(i) :
               KeyOf(r) = KeyOf(q) /\ r.TRACK_ID # q.TRACK_ID

----------------------------------------------------------------------------
(* Properties of the static channels.                                      *)

StaticMask(i) == particles[i].MaskFile /\ particles[i].Static

(* The loop that builds the tables ended at channel i with a centroid      *)
(* error.                                                                  *)
CentroidErrorAt(i) ==
    pc = "Failed" /\ error = "InvalidCentroidError" /\ Len(tables) = i - 1

(* C28: a track point with frame > 0 of a static mask channel has no       *)
(* effect: a centroid error of the channel comes from a point of frame 0,  *)
(* and the table of the channel is the table of the track file without the *)
(* points of the later frames.                                             *)
C28_StaticLaterFramesIgnored ==
    \A i \in 1..Len(particles) :
        StaticMask(i) =>
            /\ CentroidErrorAt(i) =>
                   \E j \in 1..Len(FrameZeroFile(i)) :
                       CentroidFails(FrameZeroFile(i)[j], particles[i].Mask, TRUE)
            /\ Len(tables) >= i =>
                   \E stable \in BOOLEAN :
                       tables[i] = ChannelTable(
                           [particles[i] EXCEPT !.TrackFile = FrameZeroFile(i)],
                           frame_count, stable).table

----------------------------------------------------------------------------
(* Properties of the output directories of a run.                          *)

(* C29: distinct cells of one run have distinct output directories, and no *)
(* two cells write a file to the same path.                                *)
C29_DistinctOutputDirectories ==
    /\ \A i, j \in 1..Len(dctracker_args) :
           dctracker_args[i].Folder # dctracker_args[j].Folder =>
               dctracker_args[i].Output # dctracker_args[j].Output
    /\ \A v, w \in disk :
           dctracker_args[v.cell].Folder # dctracker_args[w.cell].Folder =>
               v.path # w.path

----------------------------------------------------------------------------
(* Properties of the iterations.                                           *)

IsPrefix(s, t) == Len(s) <= Len(t) /\ s = SubSeq(t, 1, Len(s))

(* C30: every iteration over an assay yields each cell once, in stored     *)
(* order, and then stops, whatever other iterations of the same assay run  *)
(* meanwhile; get_cells returns every cell of every assay once.            *)
C30_IterationYieldsEachOnce ==
    /\ \A c \in DOMAIN it_pc :
           /\ it_pc[c] = "Iterating" => IsPrefix(yielded[c], it_cells[1])
           /\ it_pc[c] = "Stopped" => yielded[c] = it_cells[1]
    /\ got # <<>> => got = AllCells(it_cells)

====
